---- MODULE Spec2Model ----
(***************************************************************************)
(* Model of the Suno song-page parser (src/unnamed/part_001): the Fastify  *)
(* handlers GET /parse and GET /extract, the embedded-data strategies, the *)
(* field fallbacks and the text cleaner.                                   *)
(*                                                                         *)
(* Text is modelled as a sequence of characters (one-character strings);   *)
(* the character U+00A0 is written NBSP.  JavaScript values are tagged     *)
(* records; JSON objects keep their keys in insertion order.               *)
(***************************************************************************)
EXTENDS Integers, Sequences, FiniteSets, TLC

VARIABLES
    pc,         \* the request: "idle", "fetching", "fetched", "done"
    endpoint,   \* "parse" or "extract" ("none" before a request arrives)
    url,        \* the url query parameter of the request
    resp,       \* the reply sent: [status, body]
    ran,        \* names of the extraction steps the handler executed
    fetchLog,   \* urls handed to fetch(), in order
    fetched,    \* how the fetch settled: [threw, status, page]
    locals,     \* /parse: the handler's variables when it replied
    cleanPc,    \* cleaner harness: number of times clean has been applied
    cleanIn,    \* cleaner harness: the argument
    cleanOut,   \* cleaner harness: clean(cleanIn)
    cleanAgain, \* cleaner harness: clean(clean(cleanIn))
    reqs        \* concurrent requests: one record per handler invocation

vars == <<pc, endpoint, url, resp, ran, fetchLog, fetched, locals,
          cleanPc, cleanIn, cleanOut, cleanAgain, reqs>>

reqVars == <<pc, endpoint, url, resp, ran, fetchLog, fetched, locals>>
cleanVars == <<cleanPc, cleanIn, cleanOut, cleanAgain>>
pairVars == <<reqs>>

-----------------------------------------------------------------------------
(* Bounds of the model *)

MaxCleanLen == 5

\* number of requests in flight at once
MaxRequests == 2

-----------------------------------------------------------------------------
(* JavaScript values *)

NBSP == "nbsp"

Undef == [k |-> "undef", s |-> <<>>, n |-> 0, kids |-> <<>>]
Null == [k |-> "null", s |-> <<>>, n |-> 0, kids |-> <<>>]
Str(cs) == [k |-> "str", s |-> cs, n |-> 0, kids |-> <<>>]
Num(i) == [k |-> "num", s |-> <<>>, n |-> i, kids |-> <<>>]
Bool(b) == [k |-> "bool", s |-> <<>>, n |-> IF b THEN 1 ELSE 0, kids |-> <<>>]
\* an object: kids is the sequence of <<key, value>> pairs in insertion order
Obj(pairs) == [k |-> "obj", s |-> <<>>, n |-> 0, kids |-> pairs]
\* an array: kids is the sequence of <<"", item>> pairs
Arr(items) ==
    [k |-> "arr", s |-> <<>>, n |-> 0,
     kids |-> [i \in 1..Len(items) |-> <<"", items[i]>>]]

\* JavaScript truthiness
Truthy(v) ==
    CASE v.k = "undef" -> FALSE
      [] v.k = "null" -> FALSE
      [] v.k = "str" -> v.s # <<>>
      [] v.k = "num" -> v.n # 0
      [] v.k = "bool" -> v.n = 1
      [] OTHER -> TRUE

\* a || b
Or(a, b) == IF Truthy(a) THEN a ELSE b

\* v?.key : own property of an object, undefined on everything else
Get(v, key) ==
    IF v.k = "obj" /\ \E i \in 1..Len(v.kids) : v.kids[i][1] = key
    THEN v.kids[CHOOSE i \in 1..Len(v.kids) :
                    /\ v.kids[i][1] = key
                    /\ \A j \in (i+1)..Len(v.kids) : v.kids[j][1] # key][2]
    ELSE Undef

Range(f) == {f[i] : i \in DOMAIN f}

-----------------------------------------------------------------------------
(* Text helpers *)

\* characters matched by \s in the inputs considered
IsSpace(c) == c \in {" ", "\n", "\t", NBSP}

\* s.includes(sub)
Includes(s, sub) ==
    \E i \in 0..(Len(s) - Len(sub)) : SubSeq(s, i + 1, i + Len(sub)) = sub

\* s.startsWith(pre)
StartsWith(s, pre) == Len(s) >= Len(pre) /\ SubSeq(s, 1, Len(pre)) = pre

-----------------------------------------------------------------------------
(* Regular expressions, as the JavaScript engine matches them: leftmost    *)
(* match, alternatives and quantifiers tried in priority order with        *)
(* backtracking.  A pattern is a sequence of nodes:                        *)
(*   set   one character in (or, negated, not in) a set                    *)
(*   any   [\s\S];  dot  . (not a newline)                                 *)
(*   star  r* (greedy) or r*? (lazy);  opt  r?                             *)
(*   alt   r1|r2|...;  look  (?=r1|r2|...)                                 *)
(*   gs/ge start/end of capture group g;  bol ^;  eol $                    *)

UpperCase == <<"A","B","C","D","E","F","G","H","I","J","K","L","M",
               "N","O","P","Q","R","S","T","U","V","W","X","Y","Z">>
LowerCase == <<"a","b","c","d","e","f","g","h","i","j","k","l","m",
               "n","o","p","q","r","s","t","u","v","w","x","y","z">>

\* case folding used by the i flag
FoldMap ==
    [c \in Range(UpperCase) |->
        LowerCase[CHOOSE i \in 1..Len(UpperCase) : UpperCase[i] = c]]

Fold(c) == IF c \in DOMAIN FoldMap THEN FoldMap[c] ELSE c

Set(cs) == [t |-> "set", cs |-> cs, neg |-> FALSE]
NotSet(cs) == [t |-> "set", cs |-> cs, neg |-> TRUE]
AnyChar == [t |-> "any"]
Dot == [t |-> "dot"]
Star(r) == [t |-> "star", r |-> r, lazy |-> FALSE]
LazyStar(r) == [t |-> "star", r |-> r, lazy |-> TRUE]
Plus(r) == r \o <<Star(r)>>
Opt(r) == [t |-> "opt", r |-> r]
Alt(rs) == [t |-> "alt", rs |-> rs]
Look(rs) == [t |-> "look", rs |-> rs]
GS(g) == [t |-> "gs", g |-> g]
GE(g) == [t |-> "ge", g |-> g]
Bol == [t |-> "bol"]
Eol == [t |-> "eol"]
\* a literal text
Lit(cs) == [i \in 1..Len(cs) |-> Set({cs[i]})]

Quote == {"\"", "'"}
WhiteSpace == {" ", "\n", "\t", NBSP}
HexDigits == {"0","1","2","3","4","5","6","7","8","9","a","b","c","d","e","f"}

NoCaps == [g \in 1..2 |-> <<0, 0>>]
NoMatch == [ok |-> FALSE, b |-> 0, e |-> 0, caps |-> NoCaps]

\* whether character c is matched by a one-character node
CharOk(node, c) ==
    CASE node.t = "set" -> (c \in node.cs) # node.neg
      [] node.t = "any" -> TRUE
      [] node.t = "dot" -> c # "\n"
      [] OTHER -> FALSE

IsCharNode(node) == node.t \in {"set", "any", "dot"}

\* the first position at or after i whose character the node rejects
\* (Len(s) + 1 when every character to the end is accepted)
RunEnd(node, s, i) ==
    IF \A j \in i..Len(s) : CharOk(node, s[j]) THEN Len(s) + 1
    ELSE CHOOSE j \in i..Len(s) :
            /\ ~CharOk(node, s[j])
            /\ \A h \in i..(j - 1) : CharOk(node, s[h])

\* the nodes matched against s from position i (1-based); the result holds
\* e, the position after the match.  A quantified single character is
\* matched as a run whose length is chosen longest first (greedy) or
\* shortest first (lazy) among those the rest can follow.
RECURSIVE MatchAt(_, _, _, _)
MatchAt(nodes, s, i, caps) ==
    IF nodes = <<>> THEN [ok |-> TRUE, b |-> 0, e |-> i, caps |-> caps]
    ELSE
    LET h == Head(nodes)
        rest == Tail(nodes)
    IN
    CASE IsCharNode(h) ->
            IF i <= Len(s) /\ CharOk(h, s[i])
            THEN MatchAt(rest, s, i + 1, caps)
            ELSE NoMatch
      [] h.t = "star" /\ Len(h.r) = 1 /\ IsCharNode(h.r[1]) ->
            LET stop == RunEnd(h.r[1], s, i)
                Ok(j) == MatchAt(rest, s, j, caps).ok
            IN  IF ~\E j \in i..stop : Ok(j) THEN NoMatch
                ELSE IF h.lazy
                THEN MatchAt(rest, s,
                        CHOOSE j \in i..stop :
                            Ok(j) /\ \A q \in i..(j - 1) : ~Ok(q),
                        caps)
                ELSE MatchAt(rest, s,
                        CHOOSE j \in i..stop :
                            Ok(j) /\ \A q \in (j + 1)..stop : ~Ok(q),
                        caps)
      [] h.t = "star" /\ ~(Len(h.r) = 1 /\ IsCharNode(h.r[1])) ->
            IF h.lazy
            THEN LET skip == MatchAt(rest, s, i, caps)
                 IN  IF skip.ok THEN skip
                     ELSE MatchAt(h.r \o <<h>> \o rest, s, i, caps)
            ELSE LET more == MatchAt(h.r \o <<h>> \o rest, s, i, caps)
                 IN  IF more.ok THEN more
                     ELSE MatchAt(rest, s, i, caps)
      [] h.t = "opt" ->
            LET more == MatchAt(h.r \o rest, s, i, caps)
            IN  IF more.ok THEN more ELSE MatchAt(rest, s, i, caps)
      [] h.t = "alt" ->
            \* the alternatives in order, leaving out at once those whose
            \* first character cannot match
            LET Live(r) == \/ r = <<>>
                           \/ ~IsCharNode(r[1])
                           \/ (i <= Len(s) /\ CharOk(r[1], s[i]))
                live == SelectSeq(h.rs, Live)
            IN  IF live = <<>> THEN NoMatch
                ELSE LET first == MatchAt(Head(live) \o rest, s, i, caps)
                     IN  IF first.ok THEN first
                         ELSE MatchAt(<<Alt(Tail(live))>> \o rest, s, i, caps)
      [] h.t = "look" ->
            IF MatchAt(<<Alt(h.rs)>>, s, i, caps).ok
            THEN MatchAt(rest, s, i, caps)
            ELSE NoMatch
      [] h.t = "gs" ->
            MatchAt(rest, s, i, [caps EXCEPT ![h.g] = <<i, 0>>])
      [] h.t = "ge" ->
            MatchAt(rest, s, i, [caps EXCEPT ![h.g] = <<caps[h.g][1], i>>])
      [] h.t = "bol" ->
            IF i = 1 THEN MatchAt(rest, s, i, caps) ELSE NoMatch
      [] h.t = "eol" ->
            IF i = Len(s) + 1 THEN MatchAt(rest, s, i, caps) ELSE NoMatch

\* the i flag: pattern and text are compared in their folded form, which
\* leaves every position as it is
FoldText(s) == [k \in 1..Len(s) |-> Fold(s[k])]

RECURSIVE FoldNodes(_)
FoldNodes(nodes) ==
    [k \in 1..Len(nodes) |->
        CASE nodes[k].t = "set" ->
                [nodes[k] EXCEPT !.cs = {Fold(c) : c \in @}]
          [] nodes[k].t \in {"star", "opt"} ->
                [nodes[k] EXCEPT !.r = FoldNodes(@)]
          [] nodes[k].t \in {"alt", "look"} ->
                [nodes[k] EXCEPT !.rs = [a \in 1..Len(@) |-> FoldNodes(@[a])]]
          [] OTHER -> nodes[k]]

\* whether the pattern matches s at position p
MatchesAt(re, s, p) == MatchAt(re, s, p, NoCaps).ok

\* the match of the pattern at position b
StartingAt(re, s, b) == [MatchAt(re, s, b, NoCaps) EXCEPT !.b = b]

\* the leftmost match of the pattern in s starting at or after position from
SearchIn(re, s, from) ==
    IF \E p \in from..(Len(s) + 1) : MatchesAt(re, s, p)
    THEN StartingAt(re, s,
            CHOOSE p \in from..(Len(s) + 1) :
                MatchesAt(re, s, p) /\ \A q \in from..(p - 1) : ~MatchesAt(re, s, q))
    ELSE NoMatch

\* the same under the flags of the pattern; ci is the i flag
Search(re, s, from, ci) ==
    SearchIn(IF ci THEN FoldNodes(re) ELSE re,
             IF ci THEN FoldText(s) ELSE s, from)

\* the text of a match, and of its capture group g
Full(s, m) == SubSeq(s, m.b, m.e - 1)
Group(s, m, g) == SubSeq(s, m.caps[g][1], m.caps[g][2] - 1)

\* s.match(re) for a pattern without the g flag that has one capture group:
\* the array [full match, group 1], or the empty sequence for null
MatchArray(s, m) == IF m.ok THEN <<Full(s, m), Group(s, m, 1)>> ELSE <<>>

MatchFirst(re, s, ci) == MatchArray(s, Search(re, s, 1, ci))

\* every match of a pattern with the g flag, left to right without overlap
RECURSIVE MatchesFrom(_, _, _, _)
RECURSIVE MatchesAfter(_, _, _, _)
MatchesFrom(re, s, from, ci) == MatchesAfter(re, s, ci, Search(re, s, from, ci))

\* the match m and those after it: the next search starts where m ends,
\* one further when m is empty
MatchesAfter(re, s, ci, m) ==
    IF ~m.ok THEN <<>>
    ELSE <<m>> \o MatchesFrom(re, s, IF m.e > m.b THEN m.e ELSE m.e + 1, ci)

Matches(re, s, ci) == MatchesFrom(re, s, 1, ci)

\* the matches as <<first position, position after the match>>
SpansOf(ms) == [k \in 1..Len(ms) |-> <<ms[k].b, ms[k].e>>]

Spans(re, s, ci) == SpansOf(Matches(re, s, ci))

\* s.match(re) for a pattern with the g flag: the full text of every match
\* (capture groups are not reported), or the empty sequence for null
FullTexts(s, ms) == [k \in 1..Len(ms) |-> Full(s, ms[k])]

MatchAll(re, s, ci) == FullTexts(s, Matches(re, s, ci))

-----------------------------------------------------------------------------
(* The patterns of the raw-HTML scans *)

\* the characters of a string literal
Chars(str) == [i \in 1..Len(str) |-> SubSeq(str, i, i)]

WS == <<Set(WhiteSpace)>>
DQ == Set({"\""})
NotDQ == NotSet({"\""})

\* name["']?\s*:\s*["']([^"']+)["']
LooseField(name) ==
    Lit(Chars(name))
    \o <<Opt(<<Set(Quote)>>), Star(WS), Set({":"}), Star(WS), Set(Quote), GS(1)>>
    \o Plus(<<NotSet(Quote)>>)
    \o <<GE(1), Set(Quote)>>

\* "name":\s*"([^"]*(?:\\.[^"]*)*)"
EscapedField(name) ==
    <<DQ>> \o Lit(Chars(name)) \o <<DQ, Set({":"}), Star(WS), DQ, GS(1),
      Star(<<NotDQ>>), Star(<<Set({"\\"}), Dot, Star(<<NotDQ>>)>>),
      GE(1), DQ>>

\* class=["'][^"']*word[^"']*["'][^>]*>([^<]+)
CssClass(word) ==
    Lit(Chars("class=")) \o <<Set(Quote), Star(<<NotSet(Quote)>>)>>
    \o Lit(Chars(word))
    \o <<Star(<<NotSet(Quote)>>), Set(Quote), Star(<<NotSet({">"})>>),
         Set({">"}), GS(1)>>
    \o Plus(<<NotSet({"<"})>>) \o <<GE(1)>>

\* Verse|Chorus|Bridge|Intro|Outro
SectionName ==
    Alt(<<Lit(Chars("Verse")), Lit(Chars("Chorus")), Lit(Chars("Bridge")),
          Lit(Chars("Intro")), Lit(Chars("Outro"))>>)

\* \[Verse\]|\[Chorus\]|\[Bridge\]|\[Outro\]|\[Intro\]
SectionTag ==
    Alt(<<Lit(Chars("[Verse]")), Lit(Chars("[Chorus]")), Lit(Chars("[Bridge]")),
          Lit(Chars("[Outro]")), Lit(Chars("[Intro]"))>>)

\* \[(?:Verse|Chorus|Bridge|Intro|Outro)[^\]]*\]
OpenSection == <<Set({"["}), SectionName, Star(<<NotSet({"]"})>>), Set({"]"})>>

\* \[Name[^\]]*\][\s\S]*?\[\/Name\]
ClosedBlock(name) ==
    Lit(Chars("[" \o name)) \o <<Star(<<NotSet({"]"})>>), Set({"]"}),
      LazyStar(<<AnyChar>>)>> \o Lit(Chars("[/" \o name \o "]"))

\* the lyrics patterns, in the order of the source list (lines 200-215)
LyricPatterns == <<
    [re |-> LooseField("prompt"), g |-> FALSE, ci |-> FALSE],
    [re |-> LooseField("lyrics"), g |-> FALSE, ci |-> FALSE],
    [re |-> EscapedField("gpt_description_prompt"), g |-> TRUE, ci |-> FALSE],
    [re |-> CssClass("lyrics"), g |-> FALSE, ci |-> FALSE],
    [re |-> Lit(Chars("data-")) \o <<Star(<<NotSet({"="})>>)>>
            \o Lit(Chars("lyrics"))
            \o <<Star(<<NotSet({"="})>>), Set({"="}), Set(Quote), GS(1)>>
            \o Plus(<<NotSet(Quote)>>) \o <<GE(1), Set(Quote)>>,
     g |-> FALSE, ci |-> FALSE],
    [re |-> EscapedField("prompt"), g |-> TRUE, ci |-> FALSE],
    [re |-> ClosedBlock("Verse"), g |-> TRUE, ci |-> TRUE],
    [re |-> ClosedBlock("Chorus"), g |-> TRUE, ci |-> TRUE],
    [re |-> <<SectionTag, LazyStar(<<AnyChar>>),
              Look(<<<<Set({"["})>>, <<Eol>>>>)>>,
     g |-> TRUE, ci |-> TRUE],
    [re |-> <<DQ, GS(1), Star(<<NotDQ>>)>> \o OpenSection
            \o <<LazyStar(<<AnyChar>>), GE(1), DQ>>,
     g |-> FALSE, ci |-> FALSE],
    [re |-> <<Alt(<<<<Bol>>, <<Set({"\n"})>>>>), GS(1), Set(Range(UpperCase)),
              Star(<<NotSet({".", "\n"})>>)>> \o OpenSection
            \o <<LazyStar(<<AnyChar>>), GE(1),
                 Alt(<<Lit(<<"\n", "\n">>), <<Eol>>>>)>>,
     g |-> FALSE, ci |-> FALSE],
    [re |-> Lit(Chars("\\u")) \o <<Set(HexDigits), Set(HexDigits),
              Set(HexDigits), Set(HexDigits), LazyStar(<<Dot>>)>>
            \o OpenSection \o <<LazyStar(<<Set({"\\", "s", "S"})>>)>>,
     g |-> TRUE, ci |-> TRUE],
    [re |-> <<DQ, Star(<<NotDQ>>), SectionTag, Star(<<NotDQ>>), DQ>>,
     g |-> TRUE, ci |-> TRUE]
>>

\* the fixed vocabulary of genre keywords, in the order of the alternation
Genre ==
    Alt(<<Lit(Chars("experimental")), Lit(Chars("ballad")),
          Lit(Chars("ambient")), Lit(Chars("rock")), Lit(Chars("pop")),
          Lit(Chars("jazz")), Lit(Chars("classical")),
          Lit(Chars("electronic")), Lit(Chars("hip-hop")),
          Lit(Chars("country")), Lit(Chars("folk")), Lit(Chars("blues")),
          Lit(Chars("r&b")), Lit(Chars("reggae")), Lit(Chars("metal")),
          Lit(Chars("punk")), Lit(Chars("indie")),
          Lit(Chars("alternative")), Lit(Chars("dance")),
          Lit(Chars("house")), Lit(Chars("techno")), Lit(Chars("dubstep")),
          Lit(Chars("trap")), Lit(Chars("lo-fi")), Lit(Chars("chillout")),
          Lit(Chars("acoustic"))>>)

CommaSpace == <<Set({",", " ", "\n", "\t", NBSP})>>

\* the styles patterns, in the order of the source list (lines 235-245)
StylePatterns == <<
    [re |-> LooseField("tags"), g |-> FALSE, ci |-> FALSE],
    [re |-> LooseField("style"), g |-> FALSE, ci |-> FALSE],
    [re |-> LooseField("genre"), g |-> FALSE, ci |-> FALSE],
    [re |-> CssClass("style"), g |-> FALSE, ci |-> FALSE],
    [re |-> CssClass("tag"), g |-> FALSE, ci |-> FALSE],
    [re |-> EscapedField("tags"), g |-> TRUE, ci |-> FALSE],
    [re |-> EscapedField("style"), g |-> TRUE, ci |-> FALSE],
    [re |-> EscapedField("genre"), g |-> TRUE, ci |-> FALSE],
    [re |-> <<Genre, Star(CommaSpace), Genre, Star(CommaSpace), Opt(<<Genre>>)>>,
     g |-> TRUE, ci |-> TRUE]
>>

\* <meta[^>]*attr=["']value["'][^>]*content=["']
MetaOpen(attr, value) ==
    Lit(Chars("<meta")) \o <<Star(<<NotSet({">"})>>)>>
    \o Lit(Chars(attr \o "=")) \o <<Set(Quote)>> \o Lit(Chars(value))
    \o <<Set(Quote), Star(<<NotSet({">"})>>)>> \o Lit(Chars("content="))
    \o <<Set(Quote)>>

\* ["'][^>]*>
MetaClose == <<Set(Quote), Star(<<NotSet({">"})>>), Set({">"})>>

\* line 182
OgTitlePattern ==
    MetaOpen("property", "og:title") \o <<GS(1)>> \o Plus(<<NotSet(Quote)>>)
    \o <<GE(1)>> \o MetaClose

\* line 183
TwitterTitlePattern ==
    MetaOpen("name", "twitter:title") \o <<GS(1)>> \o Plus(<<NotSet(Quote)>>)
    \o <<GE(1)>> \o MetaClose

\* line 184
HtmlTitlePattern ==
    Lit(Chars("<title")) \o <<Star(<<NotSet({">"})>>), Set({">"}), GS(1)>>
    \o Plus(<<NotSet({"<"})>>) \o <<GE(1)>> \o Lit(Chars("</title>"))

\* line 192
DescByPattern ==
    MetaOpen("name", "description") \o <<GS(1), Star(<<NotSet(Quote)>>)>>
    \o Lit(Chars("by")) \o Plus(WS) \o <<GS(2)>> \o Plus(<<NotSet(Quote)>>)
    \o <<GE(2), GE(1)>> \o MetaClose

\* line 263
MetaDescPattern ==
    MetaOpen("name", "description") \o <<GS(1), Star(<<NotSet(Quote)>>), GE(1)>>
    \o MetaClose

\* line 265
GenrePattern == <<GS(1), Genre, GE(1)>>

-----------------------------------------------------------------------------
(* Replacement and trimming *)

\* s with every span <<b, e>> replaced by To(b), a text of at most two
\* characters; the spans do not overlap and none is empty
ReplaceSpans(s, spans, To(_)) ==
    LET InSpan(i) == \E k \in 1..Len(spans) : spans[k][1] <= i /\ i < spans[k][2]
        Starts(i) == \E k \in 1..Len(spans) : spans[k][1] = i
        slots == [n \in 1..(2 * Len(s)) |-> <<(n + 1) \div 2, 2 - (n % 2)>>]
        Keep(slot) ==
            IF InSpan(slot[1])
            THEN Starts(slot[1]) /\ slot[2] <= Len(To(slot[1]))
            ELSE slot[2] = 1
        Pick(kept) ==
            [n \in 1..Len(kept) |->
                IF InSpan(kept[n][1]) THEN To(kept[n][1])[kept[n][2]]
                ELSE s[kept[n][1]]]
    IN  IF spans = <<>> THEN s ELSE Pick(SelectSeq(slots, Keep))

\* s.replace(re, to) for a pattern with the g flag and a fixed replacement
ReplaceRe(s, re, to, ci) ==
    LET To(b) == to
    IN  ReplaceSpans(s, Spans(re, s, ci), To)

\* s.trim()
Trim(s) ==
    IF \A i \in 1..Len(s) : IsSpace(s[i]) THEN <<>>
    ELSE LET first == CHOOSE i \in 1..Len(s) :
                        ~IsSpace(s[i]) /\ \A h \in 1..(i - 1) : IsSpace(s[h])
             last == CHOOSE i \in 1..Len(s) :
                        ~IsSpace(s[i]) /\ \A h \in (i + 1)..Len(s) : IsSpace(s[h])
         IN  SubSeq(s, first, last)

-----------------------------------------------------------------------------
(* clean: part_001 lines 273-281 *)

\* / /g
NbspPattern == <<Set({NBSP})>>
\* /<[^>]+>/g
TagPattern == <<Set({"<"})>> \o Plus(<<NotSet({">"})>>) \o <<Set({">"})>>
\* /\s+/g
SpaceRunPattern == Plus(<<Set(WhiteSpace)>>)
\* /\n{3,}/g
NewlineRunPattern == Lit(<<"\n", "\n", "\n">>) \o <<Star(<<Set({"\n"})>>)>>

ReplaceNbsp(s) == ReplaceRe(s, NbspPattern, <<" ">>, FALSE)
StripTags(s) == ReplaceRe(s, TagPattern, <<>>, FALSE)
CollapseSpace(s) == ReplaceRe(s, SpaceRunPattern, <<" ">>, FALSE)
CollapseNewlines(s) == ReplaceRe(s, NewlineRunPattern, <<"\n", "\n">>, FALSE)

\* a plausible slip: tags stripped after trimming instead of before
CleanTextStripLast(s) ==
    StripTags(Trim(CollapseNewlines(CollapseSpace(ReplaceNbsp(s)))))

\* clean applied to a string
CleanText(s) ==
    Trim(CollapseNewlines(CollapseSpace(StripTags(ReplaceNbsp(s)))))

\* text || null
TextOrNull(text) == IF text = <<>> THEN Null ELSE Str(text)

\* clean(v) for null, undefined or a string: the ?. chain yields undefined
\* on null/undefined and '|| null' maps undefined and '' to null
Clean(v) ==
    IF v.k \in {"null", "undef"} THEN Null ELSE TextOrNull(CleanText(v.s))

\* clean(v) throws a TypeError when v is neither null/undefined nor a
\* string: v.replace is not a function
CleanThrows(v) == v.k \notin {"null", "undef", "str"}

-----------------------------------------------------------------------------
(* JSON text *)

Digit == <<"0", "1", "2", "3", "4", "5", "6", "7", "8", "9">>

\* the decimal digits of a natural number
RECURSIVE Digits(_)
Digits(n) ==
    IF n < 10 THEN <<Digit[n + 1]>>
    ELSE Digits(n \div 10) \o <<Digit[(n % 10) + 1]>>

\* the characters a string literal escapes: ", \ and newline
EscapePattern == <<Set({"\"", "\\", "\n"})>>

\* the body of a JSON (or JavaScript) string literal holding text s
Escape(s) ==
    LET To(b) == <<"\\", IF s[b] = "\n" THEN "n" ELSE s[b]>>
    IN  ReplaceSpans(s, Spans(EscapePattern, s, FALSE), To)

\* JSON.stringify(v) for a value JSON.parse can produce
RECURSIVE Stringify(_)
RECURSIVE StringifyKids(_, _, _)
Stringify(v) ==
    CASE v.k = "str" -> <<"\"">> \o Escape(v.s) \o <<"\"">>
      [] v.k = "num" -> Digits(v.n)
      [] v.k = "bool" -> IF v.n = 1 THEN Chars("true") ELSE Chars("false")
      [] v.k = "arr" -> <<"[">> \o StringifyKids(v.kids, 1, FALSE) \o <<"]">>
      [] v.k = "obj" -> <<"{">> \o StringifyKids(v.kids, 1, TRUE) \o <<"}">>
      [] OTHER -> Chars("null")

StringifyKids(kids, i, keyed) ==
    IF i > Len(kids) THEN <<>>
    ELSE (IF i > 1 THEN <<",">> ELSE <<>>)
         \o (IF keyed THEN <<"\"">> \o Chars(kids[i][1]) \o <<"\"", ":">>
             ELSE <<>>)
         \o Stringify(kids[i][2])
         \o StringifyKids(kids, i + 1, keyed)

\* String(v), as a template literal converts a value
RECURSIVE ToText(_)
RECURSIVE ToTextItems(_, _)
ToText(v) ==
    CASE v.k = "str" -> v.s
      [] v.k = "num" -> Digits(v.n)
      [] v.k = "bool" -> IF v.n = 1 THEN Chars("true") ELSE Chars("false")
      [] v.k = "arr" -> ToTextItems(v.kids, 1)
      [] v.k = "obj" -> Chars("[object Object]")
      [] v.k = "null" -> Chars("null")
      [] OTHER -> Chars("undefined")

ToTextItems(kids, i) ==
    IF i > Len(kids) THEN <<>>
    ELSE (IF i > 1 THEN <<",">> ELSE <<>>)
         \o (IF kids[i][2].k \in {"null", "undef"} THEN <<>>
             ELSE ToText(kids[i][2]))
         \o ToTextItems(kids, i + 1)

-----------------------------------------------------------------------------
(* The fetched page: a sequence of elements and the HTML text they make.   *)
(*   script  a <script> tag holding text; legacy when its opening tag is   *)
(*           <script id="__NEXT_DATA__" type="application/json">; valid    *)
(*           when the text is the JSON text of json                        *)
(*   chunk   <script>self.__next_f.push([1,"payload"])</script>            *)
(*   markup  any other HTML                                                *)

JsonScript(legacy, json) ==
    [kind |-> "script", legacy |-> legacy, text |-> Stringify(json),
     json |-> json, valid |-> TRUE]

BadScript(legacy, text) ==
    [kind |-> "script", legacy |-> legacy, text |-> text,
     json |-> Undef, valid |-> FALSE]

\* a streamed chunk whose payload is the JSON text of json
JsonChunk(json) ==
    [kind |-> "chunk", legacy |-> FALSE, text |-> Stringify(json),
     json |-> json, valid |-> TRUE]

\* a streamed chunk whose payload is not JSON
TextChunk(text) ==
    [kind |-> "chunk", legacy |-> FALSE, text |-> text,
     json |-> Undef, valid |-> FALSE]

Markup(text) ==
    [kind |-> "markup", legacy |-> FALSE, text |-> text,
     json |-> Undef, valid |-> FALSE]

LegacyOpenTag == Chars("<script id=\"__NEXT_DATA__\" type=\"application/json\">")
PushOpen == Chars("self.__next_f.push([1,\"")
PushClose == Chars("\"])")

\* the text between <script...> and </script>
ScriptContent(el) ==
    IF el.kind = "chunk" THEN PushOpen \o Escape(el.text) \o PushClose
    ELSE el.text

\* the HTML text of one element
ElementHtml(el) ==
    IF el.kind = "markup" THEN el.text
    ELSE (IF el.legacy THEN LegacyOpenTag ELSE Chars("<script>"))
         \o ScriptContent(el) \o Chars("</script>")

RECURSIVE HtmlFrom(_, _)
HtmlFrom(els, i) ==
    IF i > Len(els) THEN <<>> ELSE ElementHtml(els[i]) \o HtmlFrom(els, i + 1)

\* response.text() of a page made of the elements els
PageOf(els) == [els |-> els, html |-> HtmlFrom(els, 1), none |-> FALSE]

-----------------------------------------------------------------------------
(* Locating the embedded song data: part_001 lines 30-123 and 339-372 *)

\* JSON.parse of an element's text: the value, or a thrown SyntaxError
JsonParse(el) == [ok |-> el.valid, v |-> el.json]

\* the index of the first element that fits, 0 when none does
FirstIndex(els, Fits(_)) ==
    IF \E i \in 1..Len(els) : Fits(els[i])
    THEN CHOOSE i \in 1..Len(els) :
            Fits(els[i]) /\ \A j \in 1..(i - 1) : ~Fits(els[j])
    ELSE 0

\* lines 35 and 344: the legacy pattern matches a legacy script whose text
\* is on one line ((.*?) has no s flag)
IsLegacyMatch(el) ==
    el.kind = "script" /\ el.legacy /\ ~Includes(el.text, <<"\n">>)

\* a plausible slip: pageProps read from the document, not from its props
SongOfNoProps(nextData) ==
    LET pageProps == Get(nextData, "pageProps")
    IN  Or(Or(Get(pageProps, "song"), Get(pageProps, "data")), pageProps)

\* lines 39-40 and 348-349:
\* pageProps?.song || pageProps?.data || pageProps
SongOf(nextData) ==
    LET pageProps == Get(Get(nextData, "props"), "pageProps")
    IN  Or(Or(Get(pageProps, "song"), Get(pageProps, "data")), pageProps)

\* a plausible slip: JSON.parse of the legacy script outside any try block
LegacyStrategyNoTry(els) ==
    LET at == FirstIndex(els, IsLegacyMatch)
        parsed == IF at = 0 THEN [ok |-> FALSE, v |-> Undef]
                  ELSE JsonParse(els[at])
    IN  [matched |-> at # 0,
         parsed |-> parsed.ok,
         threw |-> at # 0 /\ ~parsed.ok,
         nextData |-> IF parsed.ok THEN parsed.v ELSE Null,
         songData |-> IF parsed.ok THEN SongOf(parsed.v) ELSE Null]

\* lines 34-45 and 343-353: the legacy __NEXT_DATA__ script; a parse
\* failure is caught and leaves songData and nextData as they were
LegacyStrategy(els) ==
    LET at == FirstIndex(els, IsLegacyMatch)
        parsed == IF at = 0 THEN [ok |-> FALSE, v |-> Undef]
                  ELSE JsonParse(els[at])
    IN  [matched |-> at # 0,
         parsed |-> parsed.ok,
         threw |-> FALSE,
         nextData |-> IF parsed.ok THEN parsed.v ELSE Null,
         songData |-> IF parsed.ok THEN SongOf(parsed.v) ELSE Null]

\* lines 63-88: the first node, depth first, that holds a nested clip with
\* title and metadata (the clip is returned) or itself has title, metadata
\* and audio_url or id (the node is returned); null when there is none
RECURSIVE FindSongData(_)
RECURSIVE FindInKids(_, _)
FindSongData(obj) ==
    IF obj.k \notin {"obj", "arr"} THEN Null
    ELSE IF /\ Truthy(Get(obj, "clip"))
            /\ Truthy(Get(Get(obj, "clip"), "title"))
            /\ Truthy(Get(Get(obj, "clip"), "metadata"))
         THEN Get(obj, "clip")
    ELSE IF /\ Truthy(Get(obj, "title"))
            /\ Truthy(Get(obj, "metadata"))
            /\ (Truthy(Get(obj, "audio_url")) \/ Truthy(Get(obj, "id")))
         THEN obj
    ELSE FindInKids(obj.kids, 1)

\* a plausible slip: the children are searched from the last to the first
FindInKidsBackward(kids, i) ==
    IF i > Len(kids) THEN Null
    ELSE LET found == FindSongData(kids[Len(kids) + 1 - i][2])
         IN  IF Truthy(found) THEN found ELSE FindInKids(kids, i + 1)

FindInKids(kids, i) ==
    IF i > Len(kids) THEN Null
    ELSE LET found == FindSongData(kids[i][2])
         IN  IF Truthy(found) THEN found ELSE FindInKids(kids, i + 1)

\* /\\"/g and /\\\\/g
EscapedQuotePattern == Lit(<<"\\", "\"">>)
EscapedBackslashPattern == Lit(<<"\\", "\\">>)

\* line 55: .replace(/\\"/g, '"').replace(/\\\\/g, '\\')
UnescapePush(raw) ==
    ReplaceRe(ReplaceRe(raw, EscapedQuotePattern, <<"\"">>, FALSE),
              EscapedBackslashPattern, <<"\\">>, FALSE)

\* line 58
ChunkGate(unescaped) ==
    /\ Includes(unescaped, Chars("\"clip\":"))
    /\ Includes(unescaped, Chars("\"status\":\"complete\""))

\* lines 53-95 for one chunk: the song it yields, null when it yields none;
\* the captured literal is unescaped, gated, parsed (a text that is not the
\* chunk's JSON text throws, which is caught) and searched
ChunkSong(el) ==
    LET Parsed(unescaped) ==
            IF ChunkGate(unescaped) /\ el.valid /\ unescaped = el.text
            THEN FindSongData(el.json)
            ELSE Null
        Captured(captured) ==
            IF captured # <<>> THEN Parsed(UnescapePush(captured)) ELSE Null
    IN  Captured(Escape(el.text))

ChunkHits(el) == el.kind = "chunk" /\ Truthy(ChunkSong(el))

\* lines 47-106: the streamed chunks in document order, stopping at the
\* first that yields a song
ChunkStrategy(els) ==
    LET Stop(at) == [found |-> at # 0,
                     songData |-> IF at = 0 THEN Null ELSE ChunkSong(els[at])]
    IN  Stop(FirstIndex(els, ChunkHits))

\* lines 112-115 and 360-363 for one script: its text starts with '{',
\* parses, and exposes title, display_name or metadata
GenericHits(el) ==
    /\ el.kind \in {"script", "chunk"}
    /\ StartsWith(Trim(ScriptContent(el)), <<"{">>)
    /\ JsonParse(el).ok
    /\ \/ Truthy(Get(el.json, "title"))
       \/ Truthy(Get(el.json, "display_name"))
       \/ Truthy(Get(el.json, "metadata"))

\* lines 109-123 and 356-372: every script in document order, stopping at
\* the first accepted one
GenericStrategy(els) ==
    LET Stop(at) == [found |-> at # 0,
                     songData |-> IF at = 0 THEN Null ELSE els[at].json]
    IN  Stop(FirstIndex(els, GenericHits))

\* line 109: allScripts.length
ScriptCount(els) ==
    Cardinality({i \in 1..Len(els) : els[i].kind \in {"script", "chunk"}})

\* /parse lines 30-123: the three strategies in source order; the chunk
\* strategy runs only while songData is falsy, the generic scan always runs
\* and overwrites songData when it accepts a script
LocateParse(els) ==
    LET Located(legacy, chunk, generic) ==
            [legacy |-> legacy,
             songData |-> IF generic.found THEN generic.songData
                          ELSE IF chunk.found THEN chunk.songData
                          ELSE legacy.songData,
             winner |-> IF generic.found THEN "generic"
                        ELSE IF chunk.found THEN "chunk"
                        ELSE IF legacy.parsed THEN "legacy" ELSE "none",
             ran |-> {"legacy", "generic"}
                     \cup (IF ~Truthy(legacy.songData) THEN {"chunk"} ELSE {})]
        AfterLegacy(legacy) ==
            Located(legacy,
                    IF ~Truthy(legacy.songData) THEN ChunkStrategy(els)
                    ELSE [found |-> FALSE, songData |-> Null],
                    GenericStrategy(els))
    IN  AfterLegacy(LegacyStrategy(els))

\* /extract lines 339-372: the legacy script, then the generic scan while
\* songData is falsy
LocateExtract(els) ==
    LET Located(legacy, generic) ==
            [legacy |-> legacy,
             songData |-> IF generic.found THEN generic.songData
                          ELSE legacy.songData,
             ran |-> {"legacy"}
                     \cup (IF ~Truthy(legacy.songData) THEN {"generic"} ELSE {})]
        AfterLegacy(legacy) ==
            Located(legacy,
                    IF ~Truthy(legacy.songData) THEN GenericStrategy(els)
                    ELSE [found |-> FALSE, songData |-> Null])
    IN  AfterLegacy(LegacyStrategy(els))

-----------------------------------------------------------------------------
(* Resolving the fields: part_001 lines 125-271 *)

MinLyricLength == 20
MinStyleLength == 2
SnippetLength == 2000
SongDataLength == 500

\* /\\n/g, /\\u([0-9a-f]{4})/gi
EscapedNewlinePattern == Lit(<<"\\", "n">>)
UnicodeEscapePattern ==
    Lit(<<"\\", "u">>) \o <<GS(1), Set(HexDigits), Set(HexDigits),
                            Set(HexDigits), Set(HexDigits), GE(1)>>

\* String.fromCharCode(parseInt(hex, 16)): the characters the model names,
\* and one token per other code
CharOfCode(hex) ==
    CASE hex = <<"0", "0", "a", "0">> -> NBSP
      [] hex = <<"0", "0", "0", "a">> -> "\n"
      [] hex = <<"0", "0", "2", "0">> -> " "
      [] hex = <<"0", "0", "2", "6">> -> "&"
      [] hex = <<"0", "0", "3", "c">> -> "<"
      [] hex = <<"0", "0", "3", "e">> -> ">"
      [] OTHER -> "U+" \o hex[1] \o hex[2] \o hex[3] \o hex[4]

\* lines 170 and 224: .replace(/\\n/g, '\n').replace(/\\"/g, '"')
\* .replace(/\\u([0-9a-f]{4})/gi, fromCharCode).trim()
DecodeUnicode(text) ==
    LET To(at) == <<CharOfCode(FoldText(SubSeq(text, at + 2, at + 5)))>>
    IN  ReplaceSpans(text, Spans(UnicodeEscapePattern, text, TRUE), To)

DecodeLyrics(text) ==
    Trim(DecodeUnicode(
            ReplaceRe(ReplaceRe(text, EscapedNewlinePattern, <<"\n">>, FALSE),
                      EscapedQuotePattern, <<"\"">>, FALSE)))

\* line 253: .replace(/\\"/g, '"').trim()
DecodeStyles(text) == Trim(ReplaceRe(text, EscapedQuotePattern, <<"\"">>, FALSE))

\* html.match(pattern) as the scan loops read it: for a pattern without the
\* g flag the array [full match, group 1], whose entries the loop visits in
\* turn; for a pattern with the g flag the full text of every match
ScanCandidates(pattern, html) ==
    IF pattern.g THEN MatchAll(pattern.re, html, pattern.ci)
    ELSE MatchFirst(pattern.re, html, pattern.ci)

\* the number of '\n' in text: text.split('\n').length - 1
NewlineCount(text) == Cardinality({i \in 1..Len(text) : text[i] = "\n"})

\* a plausible slip: the length test dropped from the gate
LyricGateNoLength(text) ==
    /\ text # <<>>
    /\ \/ Includes(text, Chars("[Verse"))
       \/ Includes(text, Chars("[Chorus"))
       \/ Includes(text, <<"\\", "n">>)
       \/ NewlineCount(text) + 1 > 2

\* line 223: the gate a lyrics candidate must pass
LyricGate(text) ==
    /\ text # <<>>
    /\ Len(text) > MinLyricLength
    /\ \/ Includes(text, Chars("[Verse"))
       \/ Includes(text, Chars("[Chorus"))
       \/ Includes(text, <<"\\", "n">>)
       \/ NewlineCount(text) + 1 > 2

NoScanHit == [found |-> FALSE, pattern |-> 0, text |-> <<>>]

\* the first candidate of pattern p that passes the gate
FirstAccepted(cands, Gate(_), p) ==
    IF \E k \in 1..Len(cands) : Gate(cands[k])
    THEN [found |-> TRUE, pattern |-> p,
          text |-> cands[CHOOSE k \in 1..Len(cands) :
                            Gate(cands[k]) /\ \A h \in 1..(k - 1) : ~Gate(cands[h])]]
    ELSE NoScanHit

\* lines 217-230: the patterns in list order from pattern p on; within a
\* pattern the candidates in order; the first candidate that passes the
\* gate is decoded and assigned and ends that pattern's loop; the scan ends
\* when the assigned value is truthy, and passes on to the next pattern
\* otherwise.  lyrics is the variable being resolved.
RECURSIVE LyricsScanFrom(_, _, _)
LyricsScanFrom(html, p, lyrics) ==
    IF p > Len(LyricPatterns) THEN [hit |-> NoScanHit, value |-> lyrics]
    ELSE LET Assigned(hit, text) ==
                IF text # <<>> THEN [hit |-> hit, value |-> Str(text)]
                ELSE LyricsScanFrom(html, p + 1, Str(<<>>))
             Visited(hit) ==
                IF ~hit.found THEN LyricsScanFrom(html, p + 1, lyrics)
                ELSE Assigned(hit, DecodeLyrics(hit.text))
         IN  Visited(FirstAccepted(ScanCandidates(LyricPatterns[p], html),
                                   LyricGate, p))

\* lines 198-231
LyricsScan(html, lyrics) == LyricsScanFrom(html, 1, lyrics)

\* line 252
StyleGate(text) == text # <<>> /\ Len(text) > MinStyleLength

\* lines 247-259: as the lyrics scan, with the styles gate and decoding
RECURSIVE StylesScanFrom(_, _, _)
StylesScanFrom(html, p, styles) ==
    IF p > Len(StylePatterns) THEN [hit |-> NoScanHit, value |-> styles]
    ELSE LET Assigned(hit, text) ==
                IF text # <<>> THEN [hit |-> hit, value |-> Str(text)]
                ELSE StylesScanFrom(html, p + 1, Str(<<>>))
             Visited(hit) ==
                IF ~hit.found THEN StylesScanFrom(html, p + 1, styles)
                ELSE Assigned(hit, DecodeStyles(hit.text))
         IN  Visited(FirstAccepted(ScanCandidates(StylePatterns[p], html),
                                   StyleGate, p))

\* lines 233-259
StylesScan(html, styles) == StylesScanFrom(html, 1, styles)

\* lines 262-270: the first genre keyword inside the description meta tag
MetaDescStyles(html) ==
    LET Keyword(content, genreMatch) ==
            IF genreMatch.ok THEN Str(Group(content, genreMatch, 1)) ELSE Null
        Content(content) ==
            IF content # <<>>
            THEN Keyword(content, Search(GenrePattern, content, 1, TRUE))
            ELSE Null
        Description(metaDesc) ==
            IF metaDesc.ok THEN Content(Group(html, metaDesc, 1)) ELSE Null
    IN  Description(Search(MetaDescPattern, html, 1, FALSE))

\* htmlTitle[1].replace(' | Suno', '').trim(): the first occurrence only
StripSiteSuffix(text) ==
    LET Without(m) ==
            IF m.ok THEN SubSeq(text, 1, m.b - 1) \o SubSeq(text, m.e, Len(text))
            ELSE text
    IN  Trim(Without(Search(Lit(Chars(" | Suno")), text, 1, FALSE)))

\* 'x && x[g]' for a match: the group's text, or null / '' when falsy
GroupOrNull(html, m, g) == IF m.ok THEN Str(Group(html, m, g)) ELSE Null

\* lines 182-187
TitleFromHtml(html) ==
    LET TagText(htmlTitle) ==
            IF htmlTitle.ok THEN Str(StripSiteSuffix(Group(html, htmlTitle, 1)))
            ELSE Null
    IN  Or(Or(Or(GroupOrNull(html, Search(OgTitlePattern, html, 1, FALSE), 1),
                 GroupOrNull(html, Search(TwitterTitlePattern, html, 1, FALSE), 1)),
              TagText(Search(HtmlTitlePattern, html, 1, FALSE))),
           Null)

\* lines 192-195: the artist after 'by' in the description meta tag, or
\* artist unchanged
ArtistFromHtml(html, artist) ==
    LET After(descMatch) ==
            IF descMatch.ok /\ Group(html, descMatch, 2) # <<>>
            THEN Str(Trim(Group(html, descMatch, 2)))
            ELSE artist
    IN  After(Search(DescByPattern, html, 1, FALSE))

\* html.lastIndexOf(sub, from) and html.indexOf(sub, from), positions
\* counted from 0, -1 when there is no occurrence
LastIndexOf(s, sub, from) ==
    LET at == {p \in 0..from : p + Len(sub) <= Len(s)
                               /\ SubSeq(s, p + 1, p + Len(sub)) = sub}
    IN  IF at = {} THEN -1 ELSE CHOOSE p \in at : \A q \in at : q <= p

IndexOf(s, sub, from) ==
    LET at == {p \in from..Len(s) : p + Len(sub) <= Len(s)
                                    /\ SubSeq(s, p + 1, p + Len(sub)) = sub}
    IN  IF at = {} THEN -1 ELSE CHOOSE p \in at : \A q \in at : p <= q

\* s.substring(a, b): both clamped to 0..length and swapped when a > b
Substring(s, a, b) ==
    LET Clamp(x) == IF x < 0 THEN 0 ELSE IF x > Len(s) THEN Len(s) ELSE x
        lo == IF Clamp(a) <= Clamp(b) THEN Clamp(a) ELSE Clamp(b)
        hi == IF Clamp(a) <= Clamp(b) THEN Clamp(b) ELSE Clamp(a)
    IN  SubSeq(s, lo + 1, hi)

\* line 155: "<promptId>:T[a-f0-9]+,([\s\S]*?)(?="]|$) with the g flag
PromptPattern(promptId) ==
    <<DQ>> \o Lit(promptId) \o Lit(Chars(":T")) \o Plus(<<Set(HexDigits)>>)
    \o <<Set({","}), GS(1), LazyStar(<<AnyChar>>), GE(1),
         Look(<<Lit(<<"\"", "]">>), <<Eol>>>>)>>

\* lines 158-173 for one match: its text is taken when the push call around
\* it does not contain "clip" and the text is longer than the minimum
PromptMatchTaken(html, m) ==
    LET content == Group(html, m, 1)
        matchStart == LastIndexOf(html, Chars("self.__next_f.push"), m.b - 1)
        matchEnd == IndexOf(html, Chars("])"), m.b - 1) + 2
        fullChunk == Substring(html, matchStart, matchEnd)
    IN  /\ content # <<>>
        /\ ~Includes(fullChunk, Chars("\"clip\""))
        /\ Len(content) > MinLyricLength

\* lines 150-176: the text the reference promptRef ('$' and an id) points
\* to, or lyrics unchanged
PromptRefLyrics(html, promptRef, lyrics) ==
    IF promptRef.k = "str" /\ StartsWith(promptRef.s, <<"$">>)
    THEN LET promptId == SubSeq(promptRef.s, 2, Len(promptRef.s))
             Resolved(allMatches) ==
                LET Taken(k) == PromptMatchTaken(html, allMatches[k])
                    First(k) == Taken(k) /\ \A h \in 1..(k - 1) : ~Taken(h)
                IN  IF \E k \in 1..Len(allMatches) : First(k)
                    THEN Str(DecodeLyrics(Group(html,
                            allMatches[CHOOSE k \in 1..Len(allMatches) : First(k)],
                            1)))
                    ELSE lyrics
         IN  Resolved(Matches(PromptPattern(promptId), html, FALSE))
    ELSE lyrics

\* a plausible slip: styles synthesized from negative_tags without 'NOT: '
NegativeStylesBare(songData, styles) ==
    IF ~Truthy(styles) /\ Truthy(Get(Get(songData, "metadata"), "negative_tags"))
    THEN Str(ToText(Get(Get(songData, "metadata"), "negative_tags")))
    ELSE styles

\* lines 132-136: styles synthesized from metadata.negative_tags
NegativeStyles(songData, styles) ==
    IF ~Truthy(styles) /\ Truthy(Get(Get(songData, "metadata"), "negative_tags"))
    THEN Str(Chars("NOT: ")
             \o ToText(Get(Get(songData, "metadata"), "negative_tags")))
    ELSE styles

\* lines 126-129: the fields as the located song data gives them; ran
\* collects the steps executed
InitialFields(songData) ==
    [title |-> Or(Get(songData, "title"), Null),
     artist |-> Or(Or(Get(songData, "display_name"),
                      Get(Get(songData, "user"), "display_name")), Null),
     lyrics |-> Or(Or(Get(Get(songData, "metadata"), "prompt"),
                      Get(songData, "gpt_description_prompt")), Null),
     styles |-> Or(Or(Get(songData, "display_tags"),
                      Get(Get(songData, "metadata"), "tags")), Null),
     audioUrl |-> Undef,
     lyricsHit |-> NoScanHit,
     stylesHit |-> NoScanHit,
     ran |-> {"fields"}]

\* lines 132-136
NegativeTagsStep(songData, f) ==
    [f EXCEPT !.styles = NegativeStyles(songData, f.styles)]

\* lines 139-145: lyrics and styles completed from props.pageProps.song of
\* the legacy document
PropsStep(nextData, f) ==
    LET props == Get(Get(nextData, "props"), "pageProps")
        song == Get(props, "song")
    IN  IF Truthy(props) /\ Truthy(song)
        THEN [f EXCEPT
                !.lyrics = Or(Or(f.lyrics, Get(Get(song, "metadata"), "prompt")),
                              Get(song, "gpt_description_prompt")),
                !.styles = Or(f.styles, Get(Get(song, "metadata"), "tags")),
                !.ran = @ \cup {"props"}]
        ELSE f

\* lines 148-177
PromptRefStep(html, songData, f) ==
    IF ~Truthy(f.lyrics) /\ Truthy(Get(Get(songData, "metadata"), "prompt"))
    THEN [f EXCEPT
            !.lyrics = PromptRefLyrics(html,
                          Get(Get(songData, "metadata"), "prompt"), f.lyrics),
            !.ran = @ \cup {"promptRef"}]
    ELSE f

\* lines 180-188
TitleStep(html, f) ==
    IF ~Truthy(f.title)
    THEN [f EXCEPT !.title = TitleFromHtml(html), !.ran = @ \cup {"titleMeta"}]
    ELSE f

\* lines 190-196
ArtistStep(html, f) ==
    IF ~Truthy(f.artist)
    THEN [f EXCEPT !.artist = ArtistFromHtml(html, f.artist),
                   !.ran = @ \cup {"artistMeta"}]
    ELSE f

\* lines 198-231
LyricsStep(html, f) ==
    LET Scanned(scan) ==
            [f EXCEPT !.lyrics = scan.value, !.lyricsHit = scan.hit,
                      !.ran = @ \cup {"lyricsScan"}]
    IN  IF ~Truthy(f.lyrics) THEN Scanned(LyricsScan(html, f.lyrics)) ELSE f

\* lines 233-259
StylesStep(html, f) ==
    LET Scanned(scan) ==
            [f EXCEPT !.styles = scan.value, !.stylesHit = scan.hit,
                      !.ran = @ \cup {"stylesScan"}]
    IN  IF ~Truthy(f.styles) THEN Scanned(StylesScan(html, f.styles)) ELSE f

\* lines 262-270: reached only inside the styles block, when its scan left
\* styles falsy
MetaDescStep(html, f) ==
    LET Found(metaStyles) ==
            [f EXCEPT !.styles = IF Truthy(metaStyles) THEN metaStyles ELSE @,
                      !.ran = @ \cup {"metaDesc"}]
    IN  IF ~Truthy(f.styles) THEN Found(MetaDescStyles(html)) ELSE f

\* line 287
AudioUrlStep(songData, f) ==
    [f EXCEPT !.audioUrl = Or(Get(songData, "audio_url"), Null)]

\* /parse lines 125-287: the four fields and the audio URL as they stand
\* just before the response is assembled, with the steps that ran
ResolveFields(html, loc) ==
    AudioUrlStep(loc.songData,
      MetaDescStep(html,
        StylesStep(html,
          LyricsStep(html,
            ArtistStep(html,
              TitleStep(html,
                PromptRefStep(html, loc.songData,
                  PropsStep(loc.legacy.nextData,
                    NegativeTagsStep(loc.songData,
                      InitialFields(loc.songData))))))))))

-----------------------------------------------------------------------------
(* The handlers: part_001 lines 9-315 (GET /parse), 318-469 (GET /extract) *)

\* lines 11 and 320: /^https?:\/\/(www\.)?suno\.com\/song\/[a-f0-9-]+$/i
UrlPattern ==
    <<Bol>> \o Lit(Chars("http")) \o <<Opt(<<Set({"s"})>>)>>
    \o Lit(Chars("://")) \o <<Opt(Lit(Chars("www.")))>>
    \o Lit(Chars("suno.com/song/")) \o Plus(<<Set(HexDigits \cup {"-"})>>)
    \o <<Eol>>

\* a plausible slip: the pattern without its ^ anchor
ValidUrlUnanchored(u) == u # <<>> /\ Search(Tail(UrlPattern), u, 1, TRUE).ok

\* lines 10-11 and 319-320: the test the url must pass ('' when missing)
ValidUrl(u) == u # <<>> /\ Search(UrlPattern, u, 1, TRUE).ok

BadRequest ==
    [status |-> 400,
     body |-> [error |-> "Provide a valid suno.com song URL at /song/<id>"]]

\* lines 312-314 and 466-468: the reply of the catch block
ServerError(message, details) ==
    [status |-> 500, body |-> [error |-> message, details |-> details]]

\* line 24: response.ok
IsOk(status) == 200 <= status /\ status <= 299

\* s.slice(0, n)
Slice(s, n) == SubSeq(s, 1, IF Len(s) < n THEN Len(s) ELSE n)

\* line 295
TranscriptionNote ==
    Chars("For accurate lyrics, consider using an LLM with audio "
          \o "transcription capabilities on the audio_url")

\* lines 289-311: the record sent by /parse
ParseRecord(u, pg, loc, f) ==
    [url |-> Str(u),
     title |-> Clean(f.title),
     artist |-> Clean(f.artist),
     lyrics |-> Clean(f.lyrics),
     styles |-> Clean(f.styles),
     audio_url |-> f.audioUrl,
     transcription_note |-> IF Truthy(f.audioUrl) THEN Str(TranscriptionNote)
                            ELSE Null,
     rawHtmlSnippet |-> Str(Slice(pg.html, SnippetLength)),
     songData |-> IF Truthy(loc.songData)
                  THEN Str(Slice(Stringify(loc.songData), SongDataLength))
                  ELSE Null,
     debugInfo |->
        [hasNextData |-> loc.legacy.matched,
         scriptCount |-> ScriptCount(pg.els),
         htmlLength |-> Len(pg.html),
         foundPatterns |->
            [title |-> Truthy(f.title),
             artist |-> Truthy(f.artist),
             lyrics |-> Truthy(f.lyrics),
             styles |-> Truthy(f.styles),
             audio_url |-> Truthy(f.audioUrl)]]]

\* before a request arrives: nothing fetched, nothing sent
NoPage == [els |-> <<>>, html |-> <<>>, none |-> TRUE]
NoResp == [status |-> 0, body |-> [none |-> TRUE]]
NoFetch == [threw |-> FALSE, status |-> 0, page |-> NoPage]
NoLocals == [none |-> TRUE]

\* a request that has not arrived.  asked and wire are what the client
\* sent and what the upstream delivered to this request's fetch; frame holds
\* the variables of the handler invocation (url of line 10, response of
\* line 18)
Requests == 1..MaxRequests
NoFrame == [url |-> <<>>, response |-> NoFetch]
NoRequest ==
    [pc |-> "idle", endpoint |-> "none", asked |-> <<>>, wire |-> NoFetch,
     now |-> 0, frame |-> NoFrame, resp |-> NoResp, locals |-> NoLocals]
NoRequests == [r \in Requests |-> NoRequest]

ReqIdle ==
    /\ pc = "idle"
    /\ endpoint = "none"
    /\ url = <<>>
    /\ resp = NoResp
    /\ ran = {}
    /\ fetchLog = <<>>
    /\ fetched = NoFetch
    /\ locals = NoLocals

\* the handler's variables when /parse replies: the candidate of the
\* legacy strategy, the strategy whose candidate songData holds, and the
\* fields before cleaning
ParseLocals(loc, f) ==
    [none |-> FALSE,
     legacySong |-> loc.legacy.songData,
     winner |-> loc.winner,
     songData |-> loc.songData,
     title |-> f.title,
     artist |-> f.artist,
     lyrics |-> f.lyrics,
     styles |-> f.styles,
     audioUrl |-> f.audioUrl,
     lyricsHit |-> f.lyricsHit,
     stylesHit |-> f.stylesHit]

\* lines 30-311: the page is processed and the reply assembled; a TypeError
\* thrown by clean on a value that is neither a string nor null/undefined
\* ends in the catch block
ParsePage(u, pg) ==
    LET Reply(loc, f) ==
            IF \/ CleanThrows(f.title) \/ CleanThrows(f.artist)
               \/ CleanThrows(f.lyrics) \/ CleanThrows(f.styles)
            THEN [resp |-> ServerError("Failed to fetch or parse page",
                                       "TypeError"),
                  ran |-> loc.ran \cup f.ran \cup {"clean"},
                  locals |-> ParseLocals(loc, f)]
            ELSE [resp |-> [status |-> 200, body |-> ParseRecord(u, pg, loc, f)],
                  ran |-> loc.ran \cup f.ran \cup {"clean", "send"},
                  locals |-> ParseLocals(loc, f)]
        Located(loc) ==
            IF loc.legacy.threw
            THEN [resp |-> ServerError("Failed to fetch or parse page",
                                       "SyntaxError"),
                  ran |-> loc.ran,
                  locals |-> NoLocals]
            ELSE Reply(loc, ResolveFields(pg.html, loc))
    IN  Located(LocateParse(pg.els))

\* a plausible slip: the status of the upstream response is not checked
ParseAfterFetchNoStatusCheck(u, outcome) ==
    IF outcome.threw
    THEN [resp |-> ServerError("Failed to fetch or parse page", "fetch failed"),
          ran |-> {},
          locals |-> NoLocals]
    ELSE ParsePage(u, outcome.page)

\* /parse lines 16-314, from the point the fetch settles: a thrown fetch
\* or a status outside 2xx ends in the catch block
ParseAfterFetch(u, outcome) ==
    IF outcome.threw
    THEN [resp |-> ServerError("Failed to fetch or parse page", "fetch failed"),
          ran |-> {},
          locals |-> NoLocals]
    ELSE IF ~IsOk(outcome.status)
    THEN [resp |-> ServerError("Failed to fetch or parse page", "HTTP status"),
          ran |-> {},
          locals |-> NoLocals]
    ELSE ParsePage(u, outcome.page)

\* the properties of obj named in keys, as obj?.key reads them
Pick(obj, keys) == [key \in keys |-> Get(obj, key)]

\* lines 380-462: the record sent by /extract
ExtractRecord(u, now, nextData) ==
    LET pageProps == Get(Get(nextData, "props"), "pageProps")
        song == Or(Get(pageProps, "song"), Get(pageProps, "data"))
    IN  [url |-> Str(u),
         extraction_timestamp |-> now,
         song_info |-> Pick(song, {"id", "title", "display_name", "created_at",
                                   "status", "model_name",
                                   "gpt_description_prompt"}),
         user_info |-> Pick(Get(song, "user"),
                            {"id", "display_name", "handle",
                             "avatar_image_url", "is_verified"}),
         media |-> Pick(song, {"audio_url", "video_url", "image_url",
                               "image_large_url"}),
         metadata |-> Pick(Get(song, "metadata"),
                           {"prompt", "gpt_description_prompt",
                            "audio_prompt_id", "history", "concat_history",
                            "type", "duration", "refund_credits", "stream",
                            "error_type", "error_message", "tags"}),
         engagement |-> Pick(song, {"play_count", "upvote_count", "is_liked",
                                    "reaction"}),
         technical |-> Pick(song, {"duration", "is_trashed", "is_public",
                                   "stem_from_id", "infill_start_s",
                                   "infill_end_s"}),
         raw_next_data |-> Pick(nextData, {"props", "page", "query", "buildId",
                                           "isFallback", "gssp"}),
         full_song_data |-> song]

\* /extract lines 325-468, from the point the fetch settles
ExtractAfterFetch(u, outcome, now) ==
    IF outcome.threw
    THEN [resp |-> ServerError("Failed to fetch or extract data", "fetch failed"),
          ran |-> {}]
    ELSE IF ~IsOk(outcome.status)
    THEN [resp |-> ServerError("Failed to fetch or extract data", "HTTP status"),
          ran |-> {}]
    ELSE LET Located(loc) ==
                IF loc.legacy.threw
                THEN [resp |-> ServerError("Failed to fetch or extract data",
                                           "SyntaxError"),
                      ran |-> loc.ran]
                \* line 374
                ELSE IF ~Truthy(loc.songData) /\ ~Truthy(loc.legacy.nextData)
                THEN [resp |-> [status |-> 404,
                                body |-> [error |-> "No song data found on page"]],
                      ran |-> loc.ran]
                ELSE [resp |-> [status |-> 200,
                                body |-> ExtractRecord(u, now, loc.legacy.nextData)],
                      ran |-> loc.ran \cup {"send"}]
         IN  Located(LocateExtract(outcome.page.els))

-----------------------------------------------------------------------------
(* The upstream: the pages suno.com may answer with, put together from a   *)
(* legacy script, streamed chunks, other scripts and plain markup          *)

T(str) == Str(Chars(str))

\* {"props":{"pageProps":{<slot>:<song>}}}
Doc(slot, song) ==
    Obj(<< <<"props", Obj(<< <<"pageProps", Obj(<< <<slot, song>> >>)>> >>)>> >>)

SongA ==
    Obj(<< <<"title", T("T")>>, <<"display_name", T("A")>>,
           <<"metadata", Obj(<< <<"prompt", T("P")>>, <<"tags", T("pop")>> >>)>> >>)

\* values that are not strings where strings are expected
SongOdd ==
    Obj(<< <<"title", Num(5)>>, <<"display_name", T("A")>>,
           <<"display_tags", Arr(<<T("pop"), T("rock")>>)>> >>)

\* lyrics behind a reference, no tags but negative tags, an audio URL
SongRef ==
    Obj(<< <<"title", T("<b>Ref</b>  song")>>,
           <<"user", Obj(<< <<"display_name", T("R")>> >>)>>,
           <<"audio_url", T("https://cdn1.suno.ai/r.mp3 ")>>,
           <<"metadata", Obj(<< <<"prompt", T("$18")>>, <<"tags", T("")>>,
                                <<"negative_tags", T("trap, lo-fi")>> >>)>> >>)

SongBare == Obj(<< <<"title", T("Bare")>>, <<"id", T("b1")>> >>)

SongClip ==
    Obj(<< <<"clip",
             Obj(<< <<"title", T("Streamed")>>, <<"status", T("complete")>>,
                    <<"metadata", Obj(<< <<"prompt", T("$18")>> >>)>> >>)>> >>)

SongGeneric == Obj(<< <<"title", T("G")>>, <<"display_name", T("GA")>> >>)

SongLate == Obj(<< <<"display_name", T("Late")>> >>)

\* a title that is markup only and an artist that is a space
SongBlank == Obj(<< <<"title", T("<br>")>>, <<"display_name", T(" ")>> >>)

LegacyOptions ==
    { <<>>,
      <<JsonScript(TRUE, Doc("song", SongA))>>,
      <<JsonScript(TRUE, Doc("song", SongOdd))>>,
      <<JsonScript(TRUE, Doc("song", SongRef))>>,
      <<JsonScript(TRUE, Doc("data", SongBare))>>,
      <<JsonScript(TRUE, Obj(<< <<"page", T("/song/[id]")>> >>))>>,
      <<BadScript(TRUE, Chars("{\"props\":"))>> }

\* the text the reference $18 stands for, and the streamed chunk holding it
RefText == Chars("[Verse]\nWalking down the road\n[Chorus]\nOh")
RefChunk == TextChunk(Chars("18:T4a2,") \o RefText)

\* a streamed chunk with the same id that also holds a nested clip
PersonaChunk ==
    TextChunk(Chars("18:T4a2,Persona words, long enough {\"clip\":{}}"))

\* a streamed chunk that passes the marker gate and is not JSON
BadChunk == TextChunk(Chars("7:{\"clip\":,\"status\":\"complete\"}"))

\* a payload with a direct song two levels down under its first key and a
\* wrapper of a nested clip one level down under its second key
SongDeep ==
    Obj(<< <<"title", T("Deep")>>, <<"metadata", Obj(<< <<"duration", Num(1)>> >>)>>,
           <<"id", T("d1")>> >>)
SongWide ==
    Obj(<< <<"title", T("Wide")>>, <<"status", T("complete")>>,
           <<"metadata", Obj(<< <<"duration", Num(2)>> >>)>> >>)
SongTree ==
    Obj(<< <<"a", Arr(<< Num(0), Obj(<< <<"b", SongDeep>> >>) >>)>>,
           <<"c", Obj(<< <<"clip", SongWide>> >>)>> >>)

ChunkOptions == { <<>>, <<JsonChunk(SongClip), PersonaChunk, RefChunk>> }

GenericOptions ==
    { <<>>,
      <<JsonScript(FALSE, SongGeneric)>>,
      <<BadScript(FALSE, Chars("{oops")),
        JsonScript(FALSE, Obj(<< <<"@type", T("MusicRecording")>> >>))>> }

\* a head that holds an og:title meta tag and nothing else
OgHead == Markup(Chars("<meta property=\"og:title\" content=\"OG Title\">"))

HeadOptions ==
    { <<>>,
      <<OgHead>>,
      <<Markup(Chars("<title>Head Title | Suno</title>"
                     \o "<meta property=\"og:title\" content=\"OG Title\">"
                     \o "<meta name=\"description\" content=\"A rock song by DJ X\">"))>> }

\* body text with a bracketed block of two sections
BlockVerse == Chars("[Verse]\nWalking down the road\n")
BlockChorus == Chars("[Chorus]\nOh oh oh")
BlockBody == Markup(Chars("<p>") \o BlockVerse \o BlockChorus \o Chars("</p>"))

BodyOptions ==
    { <<>>,
      <<BlockBody>>,
      <<Markup(Chars("<p>lyrics: \"[Verse] hi\"</p>"
                     \o "<div class=\"lyrics\">[Verse] walking down the road</div>"
                     \o "<span class=\"tags\">dream pop</span>"))>>,
      <<Markup(Chars("<p>lyrics: \"one plain line of words, no marker\"</p>"))>> }

\* pages of scripts only, where a candidate that does not parse comes
\* before one that does
ScanLegacyOptions == { <<>>, <<BadScript(TRUE, Chars("{\"props\":"))>> }
ScanChunkOptions ==
    { <<>>,
      <<JsonChunk(SongClip)>>,
      <<BadChunk, JsonChunk(SongTree), JsonChunk(SongClip)>> }
ScanGenericOptions ==
    { <<>>,
      <<BadScript(FALSE, Chars("{oops")), JsonScript(FALSE, SongLate)>>,
      <<JsonScript(FALSE, SongBlank)>> }

Pages ==
    {PageOf(h \o l \o c \o g \o b) :
        h \in HeadOptions, l \in LegacyOptions, c \in ChunkOptions,
        g \in GenericOptions, b \in BodyOptions}
    \cup {PageOf(l \o c \o g) :
            l \in ScanLegacyOptions, c \in ScanChunkOptions,
            g \in ScanGenericOptions}

\* what an upstream answers outside 2xx with
ErrorPages == {PageOf(<<JsonScript(TRUE, Doc("song", SongA))>>)}

\* how fetch() and response.text() can settle
Outcomes ==
    {[threw |-> TRUE, status |-> 0, page |-> NoPage]}
    \cup {[threw |-> FALSE, status |-> 200, page |-> pg] : pg \in Pages}
    \cup {[threw |-> FALSE, status |-> st, page |-> pg] :
            st \in {203, 404, 503}, pg \in ErrorPages}

\* the url query parameter: missing, a song url, two other urls
Urls ==
    { <<>>,
      Chars("https://www.suno.com/song/AB12-cd"),
      Chars("https://suno.com/playlist/ab12"),
      Chars("https://evil.example/?u=https://suno.com/song/ab"),
      Chars("http://suno.com/song/ab12?x=1") }

\* new Date() at the time /extract answers
Clock == {0, 1}

-----------------------------------------------------------------------------
(* The request: one handler invocation, suspended while the fetch is out *)

Init ==
    /\ ReqIdle
    /\ cleanPc = 0
    /\ cleanIn = Null
    /\ cleanOut = Undef
    /\ cleanAgain = Undef
    /\ reqs = NoRequests

\* lines 9-18 (endpoint "parse") and 318-327 (endpoint "extract"): the url
\* is validated, then fetch is called and the handler awaits it
Start(ep, u) ==
    /\ pc = "idle"
    /\ endpoint' = ep
    /\ url' = u
    /\ IF ValidUrl(u)
       THEN /\ pc' = "fetching"
            /\ fetchLog' = Append(fetchLog, u)
            /\ UNCHANGED resp
       ELSE /\ pc' = "done"
            /\ resp' = BadRequest
            /\ UNCHANGED fetchLog
    /\ UNCHANGED <<ran, fetched, locals>>
    /\ UNCHANGED cleanVars
    /\ UNCHANGED pairVars

ParseStart == \E u \in Urls : Start("parse", u)

ExtractStart == \E u \in Urls : Start("extract", u)

\* lines 18-28 and 327-337: the awaited fetch settles, by throwing or
\* with a status and a body
FetchSettles ==
    /\ pc = "fetching"
    /\ \E outcome \in Outcomes : fetched' = outcome
    /\ pc' = "fetched"
    /\ UNCHANGED <<endpoint, url, resp, ran, fetchLog, locals>>
    /\ UNCHANGED cleanVars
    /\ UNCHANGED pairVars

\* lines 24-314: /parse resumes after the fetch and runs to its reply
ParseResume ==
    /\ pc = "fetched"
    /\ endpoint = "parse"
    /\ \E done \in {ParseAfterFetch(url, fetched)} :
          /\ resp' = done.resp
          /\ ran' = done.ran
          /\ locals' = done.locals
    /\ pc' = "done"
    /\ UNCHANGED <<endpoint, url, fetchLog, fetched>>
    /\ UNCHANGED cleanVars
    /\ UNCHANGED pairVars

\* lines 333-468: /extract resumes after the fetch and runs to its reply
ExtractResume ==
    /\ pc = "fetched"
    /\ endpoint = "extract"
    /\ \E now \in Clock :
          \E done \in {ExtractAfterFetch(url, fetched, now)} :
              /\ resp' = done.resp
              /\ ran' = done.ran
    /\ pc' = "done"
    /\ UNCHANGED <<endpoint, url, fetchLog, fetched, locals>>
    /\ UNCHANGED cleanVars
    /\ UNCHANGED pairVars

Next ==
    \/ ParseStart
    \/ ExtractStart
    \/ FetchSettles
    \/ ParseResume
    \/ ExtractResume

Spec == Init /\ [][Next]_vars

-----------------------------------------------------------------------------
(* The cleaner on its own: clean applied once and twice to bounded text *)

CleanAlphabet == {"<", ">", "a", " ", "\n", NBSP}

RECURSIVE TextsUpTo(_, _)
TextsUpTo(alphabet, n) ==
    IF n = 0 THEN {<<>>}
    ELSE LET shorter == TextsUpTo(alphabet, n - 1)
         IN  shorter \cup {Append(t, c) : t \in shorter, c \in alphabet}

CleanInputs ==
    {Null, Undef} \cup {Str(t) : t \in TextsUpTo(CleanAlphabet, MaxCleanLen)}

InitClean ==
    /\ ReqIdle
    /\ cleanPc = 0
    /\ cleanIn \in CleanInputs
    /\ cleanOut = Undef
    /\ cleanAgain = Undef
    /\ reqs = NoRequests

CleanOnce ==
    /\ cleanPc = 0
    /\ cleanOut' = Clean(cleanIn)
    /\ cleanPc' = 1
    /\ UNCHANGED <<cleanIn, cleanAgain>>
    /\ UNCHANGED reqVars
    /\ UNCHANGED pairVars

CleanTwice ==
    /\ cleanPc = 1
    /\ cleanAgain' = Clean(cleanOut)
    /\ cleanPc' = 2
    /\ UNCHANGED <<cleanIn, cleanOut>>
    /\ UNCHANGED reqVars
    /\ UNCHANGED pairVars

NextClean == CleanOnce \/ CleanTwice

SpecClean == InitClean /\ [][NextClean]_vars

-----------------------------------------------------------------------------
(* Requests in flight together: handler invocations interleave where they *)
(* await the fetch (line 18) and the body (line 28)                       *)

PairUrls ==
    { Chars("https://suno.com/song/ab12"),
      Chars("https://suno.com/playlist/ab12") }

PairPages ==
    { PageOf(<<JsonScript(TRUE, Doc("song", SongA))>>),
      PageOf(<<OgHead, BlockBody>>) }

PairOutcomes ==
    {[threw |-> TRUE, status |-> 0, page |-> NoPage]}
    \cup {[threw |-> FALSE, status |-> 200, page |-> pg] : pg \in PairPages}

\* lines 10, 18, 28, 31-32, 126-129: url, response, html, songData and the
\* fields are const/let declarations inside the handler, so each
\* invocation reads the variables of its own activation
FrameShared(frames, r) == frames[1].frame
Frame(frames, r) == frames[r].frame

\* what a handler replies after the fetch, tabulated over everything the
\* variables url and response can hold.  A request running alone answers
\* AloneParse[u, o] (AloneExtract[u, o, now]) when the client sent u and
\* its fetch received o.
AloneParse ==
    [u \in PairUrls \cup {NoFrame.url},
     o \in PairOutcomes \cup {NoFrame.response} |-> ParseAfterFetch(u, o)]
AloneExtract ==
    [u \in PairUrls \cup {NoFrame.url},
     o \in PairOutcomes \cup {NoFrame.response},
     now \in Clock |-> ExtractAfterFetch(u, o, now)]

InitPair ==
    /\ ReqIdle
    /\ cleanPc = 0
    /\ cleanIn = Null
    /\ cleanOut = Undef
    /\ cleanAgain = Undef
    /\ reqs = NoRequests

\* lines 9-18 and 318-327: request r arrives, its url is validated and
\* fetch is called
Arrive(r, ep, u) ==
    /\ reqs[r].pc = "idle"
    /\ reqs' = [reqs EXCEPT ![r] =
          [@ EXCEPT !.endpoint = ep,
                    !.asked = u,
                    !.frame = [@ EXCEPT !.url = u],
                    !.pc = IF ValidUrl(u) THEN "fetching" ELSE "done",
                    !.resp = IF ValidUrl(u) THEN @ ELSE BadRequest]]
    /\ UNCHANGED reqVars
    /\ UNCHANGED cleanVars

\* lines 18-28 and 327-337: the fetch of request r settles
Settle(r, outcome) ==
    /\ reqs[r].pc = "fetching"
    /\ reqs' = [reqs EXCEPT ![r] =
          [@ EXCEPT !.wire = outcome,
                    !.frame = [@ EXCEPT !.response = outcome],
                    !.pc = "fetched"]]
    /\ UNCHANGED reqVars
    /\ UNCHANGED cleanVars

\* lines 24-314: /parse invocation r resumes and runs to its reply
ResumeParseOf(r) ==
    /\ reqs[r].pc = "fetched"
    /\ reqs[r].endpoint = "parse"
    /\ \E mine \in {Frame(reqs, r)} :
          \E done \in {AloneParse[mine.url, mine.response]} :
              reqs' = [reqs EXCEPT ![r] =
                  [@ EXCEPT !.resp = done.resp,
                            !.locals = done.locals,
                            !.pc = "done"]]
    /\ UNCHANGED reqVars
    /\ UNCHANGED cleanVars

\* lines 333-468: /extract invocation r resumes and runs to its reply
ResumeExtractOf(r) ==
    /\ reqs[r].pc = "fetched"
    /\ reqs[r].endpoint = "extract"
    /\ \E now \in Clock :
          \E mine \in {Frame(reqs, r)} :
              \E done \in {AloneExtract[mine.url, mine.response, now]} :
                  reqs' = [reqs EXCEPT ![r] =
                      [@ EXCEPT !.resp = done.resp,
                                !.now = now,
                                !.pc = "done"]]
    /\ UNCHANGED reqVars
    /\ UNCHANGED cleanVars

ArriveAny == \E r \in Requests, ep \in {"parse", "extract"}, u \in PairUrls :
                Arrive(r, ep, u)
SettleAny == \E r \in Requests, outcome \in PairOutcomes : Settle(r, outcome)
ResumeParseAny == \E r \in Requests : ResumeParseOf(r)
ResumeExtractAny == \E r \in Requests : ResumeExtractOf(r)

NextPair ==
    \/ ArriveAny
    \/ SettleAny
    \/ ResumeParseAny
    \/ ResumeExtractAny

SpecPair == InitPair /\ [][NextPair]_vars

\* The event loop runs the continuation of a handler whose awaited
\* promise has settled.  Nothing makes the promise of line 18 settle: the
\* call passes headers only, no signal and no timer, so the upstream
\* decides whether Settle ever happens.
SpecPairLive ==
    /\ InitPair
    /\ [][NextPair]_vars
    /\ \A r \in Requests : WF_vars(ResumeParseOf(r))
    /\ \A r \in Requests : WF_vars(ResumeExtractOf(r))

-----------------------------------------------------------------------------
(* Claims about one request, checked under Spec *)

\* /parse has replied to a request whose fetch brought a 2xx answer
ParseReplied ==
    /\ pc = "done"
    /\ endpoint = "parse"
    /\ ~fetched.threw
    /\ IsOk(fetched.status)

\* C1: for every body fetched with a 2xx status, whatever its embedded
\* payloads hold (malformed JSON, missing keys, values that are not
\* strings), /parse answers 200 with a record whose four fields are
\* strings or null; 500 is sent only for a thrown fetch or a status
\* outside 2xx.
C1_NeverRaises ==
    /\ ParseReplied =>
          /\ resp.status = 200
          /\ \A field \in {"title", "artist", "lyrics", "styles"} :
                resp.body[field].k \in {"str", "null"}
    /\ (pc = "done" /\ endpoint = "parse" /\ resp.status = 500) =>
          (fetched.threw \/ ~IsOk(fetched.status))

\* C2: when the legacy strategy yields a candidate with a non-empty title,
\* the title sent is that title cleaned and the winning candidate is the
\* legacy one, whatever chunks and other scripts the page holds.
C2_FirstMatchWins ==
    (/\ ParseReplied
     /\ resp.status = 200
     /\ Get(locals.legacySong, "title").k = "str"
     /\ Get(locals.legacySong, "title").s # <<>>)
    => /\ resp.body.title = Clean(Get(locals.legacySong, "title"))
       /\ locals.winner = "legacy"
       /\ locals.songData = locals.legacySong

\* C3: when the fetch throws or the upstream status is outside 2xx, /parse
\* and /extract answer 500 with an error object only (no record field is
\* sent) and no extraction step runs.
C3_TransportFailureFatal ==
    (/\ pc = "done"
     /\ fetched # NoFetch
     /\ (fetched.threw \/ ~IsOk(fetched.status)))
    => /\ resp.status = 500
       /\ DOMAIN resp.body = {"error", "details"}
       /\ ran = {}
       /\ locals = NoLocals

\* a non-2xx answer whose body holds song data was fetched by /parse
C3_Witness ==
    /\ pc = "done"
    /\ endpoint = "parse"
    /\ fetched.status = 404
    /\ \E i \in 1..Len(fetched.page.els) : fetched.page.els[i].valid
    /\ resp.status = 500

\* C4: /extract answers 404, never 200 or 500, for a fetched page with no
\* parsable structured payload: its legacy script, if any, is malformed,
\* and no script holds JSON that parses and exposes title, display_name or
\* metadata.
C4_StrictNotFound ==
    LET els == fetched.page.els
        Exposes(json) == \/ Truthy(Get(json, "title"))
                         \/ Truthy(Get(json, "display_name"))
                         \/ Truthy(Get(json, "metadata"))
        Payload(el) == /\ el.kind = "script"
                       /\ el.valid
                       /\ (el.legacy \/ Exposes(el.json))
    IN  (/\ pc = "done"
         /\ endpoint = "extract"
         /\ ~fetched.threw
         /\ IsOk(fetched.status)
         /\ \A i \in 1..Len(els) : ~Payload(els[i]))
        => resp.status = 404

\* /extract answered 404 for a page with a malformed legacy script, a
\* script that does not parse and one that parses but exposes nothing
C4_Witness ==
    LET els == fetched.page.els
    IN  /\ pc = "done"
        /\ endpoint = "extract"
        /\ resp.status = 404
        /\ \E i \in 1..Len(els) : els[i].legacy /\ ~els[i].valid
        /\ \E i \in 1..Len(els) :
              els[i].kind = "script" /\ ~els[i].legacy /\ els[i].valid
        /\ ran = {"legacy", "generic"}

\* C5: when the winning candidate's metadata.prompt is the marker $18 and
\* the page holds two streamed chunks with the text 18:T<hex>,<text>, one
\* with a nested "clip" and one without (text longer than 20 characters),
\* the lyrics sent are the decoded text of the chunk without clip, not the
\* marker.
C5_IndirectionResolved ==
    LET els == fetched.page.els
    IN  (/\ ParseReplied
         /\ resp.status = 200
         /\ Get(Get(locals.songData, "metadata"), "prompt") = T("$18")
         /\ \E i \in 1..Len(els) : els[i] = PersonaChunk
         /\ \E i \in 1..Len(els) : els[i] = RefChunk)
        => /\ resp.body.lyrics = Clean(Str(RefText))
           /\ resp.body.lyrics # T("$18")

-----------------------------------------------------------------------------
(* Claims about the cleaner, checked under SpecClean *)

(* C6: the cleaner is idempotent: clean(clean(s)) = clean(s) for every     *)
(* string s (tags, nested or unbalanced angle brackets, non-breaking       *)
(* spaces, runs of newlines), and clean(null) = null.                      *)
C6_CleanIdempotent ==
    /\ cleanPc = 2 => cleanAgain = cleanOut
    /\ (cleanPc >= 1 /\ cleanIn.k = "null") => cleanOut = Null

\* clean was applied twice to a text with nested angle brackets, a
\* non-breaking space or a newline run, and left a non-empty result
C6_Witness ==
    /\ cleanPc = 2
    /\ cleanIn.k = "str"
    /\ Includes(cleanIn.s, <<"<", "<">>)
    /\ Includes(cleanIn.s, <<">">>)
    /\ cleanOut.k = "str"
    /\ cleanOut.s # cleanIn.s

-----------------------------------------------------------------------------
(* Further claims about one request, checked under Spec *)

\* C7: every string-valued song field of the /parse record (title, artist,
\* lyrics, styles and the audio URL) is the cleaner's result for the
\* resolved value.
C7_AllFieldsCleaned ==
    (ParseReplied /\ resp.status = 200)
    => /\ resp.body.title = Clean(locals.title)
       /\ resp.body.artist = Clean(locals.artist)
       /\ resp.body.lyrics = Clean(locals.lyrics)
       /\ resp.body.styles = Clean(locals.styles)
       /\ resp.body.audio_url = Clean(locals.audioUrl)

\* C8: when the winning candidate has neither display_tags nor a non-empty
\* metadata.tags but a non-empty metadata.negative_tags N, the styles of a
\* 200 record are 'NOT: ' followed by N, cleaned, and no styles pattern of
\* the raw-HTML scan is tried.
C8_NegativeTagsSynthesis ==
    LET metadata == Get(locals.songData, "metadata")
        negTags == Get(metadata, "negative_tags")
    IN  (/\ ParseReplied
         /\ resp.status = 200
         /\ ~Truthy(Get(locals.songData, "display_tags"))
         /\ ~Truthy(Get(metadata, "tags"))
         /\ negTags.k = "str"
         /\ negTags.s # <<>>)
        => /\ resp.body.styles = Clean(Str(Chars("NOT: ") \o negTags.s))
           /\ ~locals.stylesHit.found
           /\ "stylesScan" \notin ran
           /\ "metaDesc" \notin ran

\* styles were synthesized from negative_tags on a page whose markup holds
\* a tags element and a description the scans would have matched
C8_Witness ==
    /\ ParseReplied
    /\ resp.status = 200
    /\ resp.body.styles = T("NOT: trap, lo-fi")
    /\ Includes(fetched.page.html, Chars("class=\"tags\">dream pop"))
    /\ Includes(fetched.page.html, Chars("A rock song"))

\* C9: a lyrics pattern match that is not longer than 20 characters, or
\* holds neither a section marker nor several lines, is never accepted,
\* and the scan then goes on with the next pattern: the accepted text
\* passes the gate, it comes from the first pattern of the list with a
\* match that passes, and when the scan accepts nothing no pattern has one.
C9_LyricsGate ==
    LET html == fetched.page.html
        hit == locals.lyricsHit
        Passes(text) ==
            /\ Len(text) > 20
            /\ \/ Includes(text, Chars("[Verse"))
               \/ Includes(text, Chars("[Chorus"))
               \/ Includes(text, <<"\\", "n">>)
               \/ Cardinality({i \in 1..Len(text) : text[i] = "\n"}) >= 2
        Has(p) == \E text \in Range(ScanCandidates(LyricPatterns[p], html)) :
                      Passes(text)
    IN  (ParseReplied /\ "lyricsScan" \in ran)
        => IF hit.found
           THEN /\ Passes(hit.text)
                /\ Has(hit.pattern)
                /\ \A q \in 1..(hit.pattern - 1) : ~Has(q)
           ELSE /\ \A p \in 1..Len(LyricPatterns) : ~Has(p)
                /\ ~Truthy(locals.lyrics)

\* the scan met a match of the second pattern that is too short, went on,
\* and accepted a match of the fourth pattern
C9_Witness ==
    /\ ParseReplied
    /\ "lyricsScan" \in ran
    /\ ScanCandidates(LyricPatterns[2], fetched.page.html) # <<>>
    /\ locals.lyricsHit.found
    /\ locals.lyricsHit.pattern = 4
    /\ resp.status = 200
    /\ resp.body.lyrics.k = "str"

\* C10: for a page whose only embedded data is the legacy script with
\* props.pageProps.song = {title:'T', display_name:'A',
\* metadata:{prompt:'P', tags:'pop'}}, /parse returns title 'T', artist
\* 'A', lyrics 'P' and styles 'pop'.
C10_ScenarioA ==
    LET els == fetched.page.els
    IN  (/\ ParseReplied
         /\ \E i \in 1..Len(els) :
               /\ els[i] = JsonScript(TRUE, Doc("song", SongA))
               /\ \A j \in 1..Len(els) : j # i => els[j].kind = "markup")
        => /\ resp.status = 200
           /\ resp.body.title = T("T")
           /\ resp.body.artist = T("A")
           /\ resp.body.lyrics = T("P")
           /\ resp.body.styles = T("pop")

\* /parse replied to scenario A's page with markup around the script
C10_Witness ==
    /\ ParseReplied
    /\ Len(fetched.page.els) = 3
    /\ fetched.page.els[2] = JsonScript(TRUE, Doc("song", SongA))
    /\ fetched.page.els[1].kind = "markup"
    /\ fetched.page.els[3].kind = "markup"
    /\ resp.status = 200
    /\ resp.body.title = T("T")

\* C11: for a page with no embedded script data, an og:title meta tag and
\* a bracketed [Verse]...[Chorus]... block in the body text, /parse
\* returns the title of the og:title tag, lyrics that cover the block (the
\* text of the [Verse] section and that of the [Chorus] section), and
\* styles null.
C11_ScenarioB ==
    (ParseReplied /\ fetched.page.els = <<OgHead, BlockBody>>)
    => /\ resp.status = 200
       /\ resp.body.title = T("OG Title")
       /\ resp.body.lyrics.k = "str"
       /\ Includes(resp.body.lyrics.s, Chars("Walking down the road"))
       /\ Includes(resp.body.lyrics.s, Chars("Oh oh oh"))
       /\ resp.body.styles = Null

-----------------------------------------------------------------------------
(* Claims about requests in flight together, checked under SpecPair *)

\* C12: requests do not interfere.  However the invocations interleave at
\* their fetch suspension points, each request that fetched is answered
\* with the response it produces running alone on its own url and its own
\* fetched page, and the candidate and fields its handler held are those
\* of that lone run.
C12_NoInterference ==
    \A r \in Requests :
        (reqs[r].pc = "done" /\ ValidUrl(reqs[r].asked)) =>
            IF reqs[r].endpoint = "parse"
            THEN /\ reqs[r].resp = AloneParse[reqs[r].asked, reqs[r].wire].resp
                 /\ reqs[r].locals
                        = AloneParse[reqs[r].asked, reqs[r].wire].locals
            ELSE reqs[r].resp
                    = AloneExtract[reqs[r].asked, reqs[r].wire,
                                   reqs[r].now].resp

\* two requests were in flight together on different pages, and the one
\* that arrived second has been answered
C12_Witness ==
    /\ reqs[1].pc = "fetched"
    /\ reqs[2].pc = "done"
    /\ reqs[2].endpoint = "parse"
    /\ reqs[1].wire.status = 200
    /\ reqs[2].wire.status = 200
    /\ reqs[1].wire.page # reqs[2].wire.page
    /\ reqs[2].resp.status = 200


-----------------------------------------------------------------------------
(* Claims about progress, checked under SpecPairLive *)

\* C13: a slow or hung upstream fetch is bounded.  A request that is
\* waiting for its fetch is eventually answered, also when the fetch
\* never completes (the timeout being surfaced as the 500 reply).
C13_HungFetchBounded ==
    \A r \in Requests : (reqs[r].pc = "fetching") ~> (reqs[r].pc = "done")

-----------------------------------------------------------------------------
(* Claims about the cleaner, checked under SpecClean *)

\* the text holds a run of three or more newlines between two letters
NewlineRunBetweenLetters(t) ==
    \E i \in 1..Len(t), n \in 3..Len(t) :
        /\ i + n + 1 <= Len(t)
        /\ t[i] = "a"
        /\ \A j \in 1..n : t[i + j] = "\n"
        /\ t[i + n + 1] = "a"

\* C14: clean collapses every run of three or more consecutive newlines of
\* its input to exactly two newlines in its output: where the input has
\* two letters separated by such a run, the output has them separated by
\* two newlines.
C14_NewlineRunsCollapseToTwo ==
    (cleanPc >= 1 /\ cleanIn.k = "str" /\ NewlineRunBetweenLetters(cleanIn.s))
    => /\ cleanOut.k = "str"
       /\ Includes(cleanOut.s, <<"a", "\n", "\n", "a">>)

-----------------------------------------------------------------------------
(* Claims about the field waterfalls of /parse, checked under Spec *)

\* the four title sources of a page, in the order of the waterfall, given
\* the title of the candidate
TitleSources(candidateTitle, html) ==
    << candidateTitle,
       GroupOrNull(html, Search(OgTitlePattern, html, 1, FALSE), 1),
       GroupOrNull(html, Search(TwitterTitlePattern, html, 1, FALSE), 1),
       LET htmlTitle == Search(HtmlTitlePattern, html, 1, FALSE)
       IN  IF htmlTitle.ok
           THEN Str(StripSiteSuffix(Group(html, htmlTitle, 1)))
           ELSE Null >>

\* the first source that is not empty, or null
FirstNonEmpty(sources) ==
    IF \E i \in 1..Len(sources) : Truthy(sources[i])
    THEN sources[CHOOSE i \in 1..Len(sources) :
                    /\ Truthy(sources[i])
                    /\ \A j \in 1..(i - 1) : ~Truthy(sources[j])]
    ELSE Null

\* the title /parse resolves is the first non-empty value among the title
\* of the candidate it holds and the three sources of the html, and the
\* title sent is that value cleaned
TitleWaterfallOverCandidate ==
    (ParseReplied /\ resp.status = 200)
    => /\ locals.title
            = FirstNonEmpty(TitleSources(Get(locals.songData, "title"),
                                         fetched.page.html))
       /\ resp.body.title = Clean(locals.title)

\* C15: the title /parse resolves is the first non-empty value in the order
\* candidate title, og:title, twitter:title, <title> text without
\* ' | Suno'; when the legacy payload carries a title, that title wins over
\* the meta tags; the title is null only if all four sources are empty.
C15_TitleWaterfall ==
    (ParseReplied /\ resp.status = 200)
    => /\ locals.title
            = FirstNonEmpty(TitleSources(Get(locals.songData, "title"),
                                         fetched.page.html))
       /\ Truthy(Get(locals.legacySong, "title"))
            => locals.title = Get(locals.legacySong, "title")
       /\ locals.title = Null
            => \A i \in 1..4 :
                  ~Truthy(TitleSources(Get(locals.songData, "title"),
                                       fetched.page.html)[i])

\* the content of the description meta tag, empty when there is none
MetaDescContent(html) ==
    LET metaDesc == Search(MetaDescPattern, html, 1, FALSE)
    IN  IF metaDesc.ok THEN Group(html, metaDesc, 1) ELSE <<>>

\* C16: when no candidate supplies styles and the html holds both a styles
\* pattern match outside the description meta tag and a genre keyword
\* inside it, the styles /parse resolves is the keyword of the description
\* meta tag.
C16_StylesPreferMetaDescription ==
    (/\ ParseReplied
     /\ resp.status = 200
     /\ "stylesScan" \in ran
     /\ locals.stylesHit.found
     /\ ~Includes(MetaDescContent(fetched.page.html), locals.stylesHit.text)
     /\ Truthy(MetaDescStyles(fetched.page.html)))
    => locals.styles = MetaDescStyles(fetched.page.html)

-----------------------------------------------------------------------------
(* Claims about locating the candidate, checked under Spec *)

\* C17: when the legacy script parses to an object, the legacy strategy
\* produces a candidate; when the key chain props, pageProps, song / data
\* finds no song object (props or pageProps may be absent), that candidate
\* is the whole parsed document.
C17_LegacyFallbackWholeDocument ==
    (ParseReplied /\ resp.status = 200)
    => LET legacy == LegacyStrategy(fetched.page.els)
           pageProps == Get(Get(legacy.nextData, "props"), "pageProps")
       IN  (legacy.parsed /\ legacy.nextData.k = "obj")
           => /\ Truthy(locals.legacySong)
              /\ (~Truthy(Get(pageProps, "song"))
                  /\ ~Truthy(Get(pageProps, "data")))
                    => locals.legacySong = legacy.nextData

\* JSON.parse is attempted on the element and throws
FailsToParse(el) ==
    /\ ~el.valid
    /\ \/ el.kind = "script" /\ StartsWith(Trim(el.text), <<"{">>)
       \/ el.kind = "chunk" /\ ChunkGate(el.text)

\* the least member of a non-empty set of indices
Least(indices) == CHOOSE i \in indices : \A j \in indices : i <= j

\* the candidate the page yields when every element that fails to parse is
\* skipped: the first script that parses and exposes title, display_name
\* or metadata; else the legacy candidate; else the song of the first
\* streamed chunk that passes the gate, parses and holds one
CandidateSkippingFailures(els) ==
    LET accepted == {i \in 1..Len(els) :
                        /\ els[i].kind = "script"
                        /\ els[i].valid
                        /\ \/ Truthy(Get(els[i].json, "title"))
                           \/ Truthy(Get(els[i].json, "display_name"))
                           \/ Truthy(Get(els[i].json, "metadata"))}
        holding == {i \in 1..Len(els) :
                        /\ els[i].kind = "chunk"
                        /\ els[i].valid
                        /\ ChunkGate(els[i].text)
                        /\ Truthy(FindSongData(els[i].json))}
        legacy == {i \in 1..Len(els) :
                        els[i].kind = "script" /\ els[i].legacy /\ els[i].valid}
        legacySong == IF legacy = {} THEN Null
                      ELSE SongOf(els[Least(legacy)].json)
    IN  IF accepted # {} THEN els[Least(accepted)].json
        ELSE IF Truthy(legacySong) THEN legacySong
        ELSE IF holding # {} THEN FindSongData(els[Least(holding)].json)
        ELSE legacySong

\* a parse failure is skipped: on a page where an element fails to parse,
\* the streamed chunks (while no candidate is held) and the scripts are
\* still scanned, the candidate is the one the remaining elements yield,
\* and a 500 reply comes from clean alone
ParseFailureSkipped ==
    (/\ ParseReplied
     /\ \E i \in 1..Len(fetched.page.els) : FailsToParse(fetched.page.els[i]))
    => /\ "generic" \in ran
       /\ resp.status = 200
            => locals.songData = CandidateSkippingFailures(fetched.page.els)
       /\ resp.status # 200
            => /\ resp.status = 500
               /\ "clean" \in ran

\* C18: a parse failure is local to one candidate.  On a page where the
\* legacy script, a streamed chunk or a generic script fails to parse, the
\* later strategies and candidates are still tried, a valid payload they
\* find is used, and the request does not end in an error response.
C18_ParseFailureLocal ==
    (/\ ParseReplied
     /\ \E i \in 1..Len(fetched.page.els) : FailsToParse(fetched.page.els[i]))
    => /\ "generic" \in ran
       /\ resp.status = 200
       /\ locals.songData = CandidateSkippingFailures(fetched.page.els)

\* the nodes of a JSON tree in depth-first pre-order
RECURSIVE PreOrder(_)
RECURSIVE PreOrderKids(_, _)
PreOrder(node) ==
    IF node.k \in {"obj", "arr"}
    THEN <<node>> \o PreOrderKids(node.kids, 1)
    ELSE <<node>>

PreOrderKids(kids, i) ==
    IF i > Len(kids) THEN <<>>
    ELSE PreOrder(kids[i][2]) \o PreOrderKids(kids, i + 1)

\* the node wraps a clip that has title and metadata
WrapsClip(node) ==
    /\ node.k \in {"obj", "arr"}
    /\ Truthy(Get(node, "clip"))
    /\ Truthy(Get(Get(node, "clip"), "title"))
    /\ Truthy(Get(Get(node, "clip"), "metadata"))

\* the node itself has title, metadata and audio_url or id
IsDirectSong(node) ==
    /\ node.k \in {"obj", "arr"}
    /\ Truthy(Get(node, "title"))
    /\ Truthy(Get(node, "metadata"))
    /\ (Truthy(Get(node, "audio_url")) \/ Truthy(Get(node, "id")))

\* what the first qualifying node of the pre-order yields, null when no
\* node qualifies
FirstInPreOrder(json) ==
    LET nodes == PreOrder(json)
        hits == {i \in 1..Len(nodes) : WrapsClip(nodes[i]) \/ IsDirectSong(nodes[i])}
        first == nodes[Least(hits)]
    IN  IF hits = {} THEN Null
        ELSE IF WrapsClip(first) THEN Get(first, "clip") ELSE first

\* C19: when /parse reaches the streamed chunks and no script is accepted
\* afterwards, the candidate is taken from the first chunk, in document
\* order, that passes the marker gate, parses and holds a qualifying node;
\* it is the nested clip (not its wrapper) or the direct song that comes
\* first in depth-first pre-order of that chunk's JSON; when no chunk holds
\* a qualifying node the chunks yield no candidate.
C19_ChunkSearchPreOrder ==
    (/\ ParseReplied
     /\ resp.status = 200
     /\ "chunk" \in ran
     /\ locals.winner # "generic")
    => LET els == fetched.page.els
           yielding == {i \in 1..Len(els) :
                           /\ els[i].kind = "chunk"
                           /\ els[i].valid
                           /\ ChunkGate(els[i].text)
                           /\ Truthy(FirstInPreOrder(els[i].json))}
       IN  IF yielding = {}
           THEN locals.winner # "chunk" /\ ~Truthy(locals.songData)
           ELSE /\ locals.winner = "chunk"
                /\ locals.songData = FirstInPreOrder(els[Least(yielding)].json)

\* /parse took the direct song two levels down in the first of two
\* yielding chunks, which follows a chunk that does not parse
C19_Witness ==
    /\ ParseReplied
    /\ resp.status = 200
    /\ locals.winner = "chunk"
    /\ locals.songData = SongDeep
    /\ resp.body.title = T("Deep")
    /\ \E i, j, k \in 1..Len(fetched.page.els) :
          /\ i < j /\ j < k
          /\ fetched.page.els[i] = BadChunk
          /\ fetched.page.els[j] = JsonChunk(SongTree)
          /\ fetched.page.els[k] = JsonChunk(SongClip)

-----------------------------------------------------------------------------
(* Claims about the reply of /parse, checked under Spec *)

\* C20: in every success reply of /parse, for each of title, artist,
\* lyrics, styles and audio_url, debugInfo.foundPatterns reports the field
\* as found if and only if the value sent for it is not null.
C20_DiagnosticsAgree ==
    (ParseReplied /\ resp.status = 200)
    => \A f \in {"title", "artist", "lyrics", "styles", "audio_url"} :
          resp.body.debugInfo.foundPatterns[f] <=> (resp.body[f] # Null)

-----------------------------------------------------------------------------
(* Claims about the entry of the handlers, checked under Spec *)

\* the url is http:// or https://, an optional www., suno.com/song/ and a
\* non-empty id of hexadecimal digits and dashes, in either letter case
SongUrlShape(u) ==
    LET t == FoldText(u)
    IN  \E scheme \in {Chars("http://"), Chars("https://")},
           www \in {<<>>, Chars("www.")} :
            LET prefix == scheme \o www \o Chars("suno.com/song/")
            IN  /\ StartsWith(t, prefix)
                /\ Len(t) > Len(prefix)
                /\ \A i \in (Len(prefix) + 1)..Len(t) :
                      t[i] \in HexDigits \cup {"-"}

\* C21: URL validation precedes all work.  A request whose url is missing
\* or is not a suno.com song url is answered 400 by /parse and by /extract
\* without any fetch and without any extraction step; a fetch is issued
\* only for a url that passed validation, once, and to that url.
C21_ValidationFirst ==
    (pc # "idle")
    => IF SongUrlShape(url)
       THEN fetchLog = <<url>>
       ELSE /\ pc = "done"
            /\ resp.status = 400
            /\ fetchLog = <<>>
            /\ fetched = NoFetch
            /\ ran = {}

\* /extract answered 400 to a url that only ends like a song url
C21_Witness ==
    /\ pc = "done"
    /\ endpoint = "extract"
    /\ url = Chars("https://evil.example/?u=https://suno.com/song/ab")
    /\ resp = BadRequest
    /\ fetchLog = <<>>

-----------------------------------------------------------------------------
(* Claims about the raw-HTML scans of /parse, checked under Spec *)

\* the patterns of each list that have a capture group around a field
\* value: quoted fields, CSS-class-marked blocks, data attributes
CapturingLyricPatterns == 1..6
CapturingStylePatterns == 1..8

\* the texts captured by group 1 over every match of the pattern
CapturedTexts(pattern, html) ==
    {Group(html, m, 1) : m \in Range(Matches(pattern.re, html, pattern.ci))}

\* C22: when the lyrics or the styles of /parse come from a raw-HTML
\* pattern with a capture group, the text taken is the captured field value
\* of a match of that pattern, without the field name, the colon or the
\* quotes of the matched markup.
C22_CapturedValueOnly ==
    ParseReplied
    => LET html == fetched.page.html
           lyricsHit == locals.lyricsHit
           stylesHit == locals.stylesHit
       IN  /\ (lyricsHit.found /\ lyricsHit.pattern \in CapturingLyricPatterns)
                => lyricsHit.text
                     \in CapturedTexts(LyricPatterns[lyricsHit.pattern], html)
           /\ (stylesHit.found /\ stylesHit.pattern \in CapturingStylePatterns)
                => stylesHit.text
                     \in CapturedTexts(StylePatterns[stylesHit.pattern], html)

-----------------------------------------------------------------------------
(* Claims about /extract, checked under Spec *)

\* /extract has replied to a request whose fetch brought a 2xx answer
ExtractReplied ==
    /\ pc = "done"
    /\ endpoint = "extract"
    /\ ~fetched.threw
    /\ IsOk(fetched.status)

\* C23: /extract answers 404 for a page only if /parse locates no candidate
\* on the same page by its legacy, streamed-chunk and generic strategies; a
\* page whose only structured payload is a streamed chunk with a clip is
\* not answered 404.
C23_ModesAgreeOnExistence ==
    (ExtractReplied /\ resp.status = 404)
    => ~Truthy(LocateParse(fetched.page.els).songData)

\* C24: when /extract answers 200, the candidate it located (by the legacy
\* key chain, by its fallback or by the generic script scan) is what it
\* returns as full_song_data, song_info, metadata and media are read from
\* that candidate, and full_song_data is never undefined.
C24_FullSongDataIsCandidate ==
    (ExtractReplied /\ resp.status = 200)
    => LET candidate == LocateExtract(fetched.page.els).songData
       IN  /\ resp.body.full_song_data # Undef
           /\ Truthy(candidate)
                => /\ resp.body.full_song_data = candidate
                   /\ resp.body.song_info.title = Get(candidate, "title")
                   /\ resp.body.metadata.tags
                        = Get(Get(candidate, "metadata"), "tags")
                   /\ resp.body.media.audio_url = Get(candidate, "audio_url")

=============================================================================
